---- MODULE Spec2Model ----
(***************************************************************************)
(* A model of the PDF translation scripts: the translation clients         *)
(* (translate_chunk and the per-script translate functions), the           *)
(* translation cache of pdf_processor.py and the page-rebuilding           *)
(* pipelines.  Texts and language codes are sequences of one-character     *)
(* strings; the translation service is an unreliable collaborator whose    *)
(* answer to every request is chosen by the environment.                   *)
(***************************************************************************)
EXTENDS Integers, Sequences, FiniteSets, TLC

VARIABLES cl, log, disk, lru, pipe

vars == <<cl, log, disk, lru, pipe>>

(***************************************************************************)
(* Bounds of the model.                                                    *)
(***************************************************************************)
MaxLen == 3

(***************************************************************************)
(* Texts.                                                                  *)
(***************************************************************************)
Char == {"a", ".", "\n"}
Ws == {" ", "\n", "\t"}
Punct == {".", "!", "?"}
Texts == UNION {[1..n -> Char] : n \in 0..MaxLen}

\* Python's None, as returned by a translator that found nothing.
NoneV == <<"None">>

RECURSIVE LStrip(_)
LStrip(t) == IF t = <<>> \/ Head(t) \notin Ws THEN t ELSE LStrip(Tail(t))

RECURSIVE RStrip(_)
RStrip(t) ==
    IF t = <<>> \/ t[Len(t)] \notin Ws THEN t ELSE RStrip(SubSeq(t, 1, Len(t) - 1))

\* str.strip()
Strip(t) == RStrip(LStrip(t))

\* str.isspace(): at least one character and all of them whitespace
IsSpace(t) == t # <<>> /\ \A i \in 1..Len(t) : t[i] \in Ws

\* truth value of a str-or-None
Truthy(v) == v # NoneV /\ v # <<>>

LowerLetters ==
    <<"a", "b", "c", "d", "e", "f", "g", "h", "i", "j", "k", "l", "m",
      "n", "o", "p", "q", "r", "s", "t", "u", "v", "w", "x", "y", "z">>
UpperLetters ==
    <<"A", "B", "C", "D", "E", "F", "G", "H", "I", "J", "K", "L", "M",
      "N", "O", "P", "Q", "R", "S", "T", "U", "V", "W", "X", "Y", "Z">>
IsLowerLetter(c) == \E i \in 1..Len(LowerLetters) : LowerLetters[i] = c
IsUpperLetter(c) == \E i \in 1..Len(UpperLetters) : UpperLetters[i] = c
UpperChar(c) ==
    IF IsLowerLetter(c)
    THEN UpperLetters[CHOOSE i \in 1..Len(LowerLetters) : LowerLetters[i] = c]
    ELSE c
LowerChar(c) ==
    IF IsUpperLetter(c)
    THEN LowerLetters[CHOOSE i \in 1..Len(UpperLetters) : UpperLetters[i] = c]
    ELSE c

\* str.upper() and str.lower()
Upper(t) == [i \in 1..Len(t) |-> UpperChar(t[i])]
Lower(t) == [i \in 1..Len(t) |-> LowerChar(t[i])]

RECURSIVE JoinWith(_, _)
\* sep.join(parts)
JoinWith(sep, parts) ==
    IF parts = <<>> THEN <<>>
    ELSE IF Len(parts) = 1 THEN parts[1]
    ELSE parts[1] \o sep \o JoinWith(sep, Tail(parts))

\* the first index i >= 2 where whitespace follows a sentence end, or 0
SentenceBreak(t) ==
    LET S == {i \in 2..Len(t) : t[i] \in Ws /\ t[i - 1] \in Punct}
    IN  IF S = {} THEN 0 ELSE CHOOSE i \in S : \A j \in S : i <= j

\* the last index of the whitespace run that starts at i
WsRunEnd(t, i) ==
    CHOOSE j \in i..Len(t) :
        /\ \A k \in i..j : t[k] \in Ws
        /\ (j = Len(t) \/ t[j + 1] \notin Ws)

RECURSIVE SplitSentences(_)
\* re.split(r'(?<=[.!?])\s+', text)
SplitSentences(t) ==
    LET i == SentenceBreak(t)
    IN  IF i = 0 THEN <<t>>
        ELSE <<SubSeq(t, 1, i - 1)>>
               \o SplitSentences(SubSeq(t, WsRunEnd(t, i) + 1, Len(t)))

\* hashlib.md5(text.encode('utf-8')).hexdigest(): a digest that tells the
\* modelled texts apart
TextHash(t) == <<"md5">> \o t

(***************************************************************************)
(* The translation service.  One request gets one of these outcomes.       *)
(***************************************************************************)
Outcomes == {"raise", "none", "blank", "echo", "case", "tr"}

\* what translator.translate(t) returns for a non-raising outcome
Value(o, t) ==
    CASE o = "none" -> NoneV
      [] o = "blank" -> <<" ">>
      [] o = "echo" -> t
      [] o = "case" -> Upper(t)
      [] OTHER -> <<"x">> \o t

\* the request failed as the contract counts it: it raised, or answered
\* nothing, blank text, or the request text unchanged
FailedOutcome(o, t) ==
    \/ o = "raise"
    \/ ~Truthy(Value(o, t))
    \/ Strip(Value(o, t)) = <<>>
    \/ Value(o, t) = t

\* the outcomes a request can get in the current run: any, or the one
\* outcome of a service that answers every request in the same way
ServiceOutcomes ==
    IF pipe.service = "any" THEN Outcomes ELSE {pipe.service}

(***************************************************************************)
(* Language codes.                                                         *)
(***************************************************************************)
ES == <<"e", "s">>
EN == <<"e", "n">>
CA == <<"c", "a">>
AUTO == <<"a", "u", "t", "o">>
\* a value that is no str (an int, a list, ...)
NonStr == <<"#obj">>
IsStr(code) == code # NonStr /\ code # NoneV

\* a character that the regular expression's \b counts as part of a word
IsWordChar(c) ==
    \/ IsLowerLetter(c)
    \/ IsUpperLetter(c)
    \/ c \in {"0", "1", "2", "3", "4", "5", "6", "7", "8", "9", "_", "å"}

\* re.search(r'\b([a-z]{2})\b', t): the start of the leftmost match, or 0
TwoLetterWord(t) ==
    LET S == {i \in 1..(Len(t) - 1) :
                /\ IsLowerLetter(t[i])
                /\ IsLowerLetter(t[i + 1])
                /\ (i = 1 \/ ~IsWordChar(t[i - 1]))
                /\ (i + 1 = Len(t) \/ ~IsWordChar(t[i + 2]))}
    IN  IF S = {} THEN 0 ELSE CHOOSE i \in S : \A j \in S : i <= j

\* re.search(r'\b([a-z]{2})-([a-z]{2})\b', t): the start of the leftmost
\* match, or 0
LangRegion(t) ==
    LET S == {i \in 1..(Len(t) - 4) :
                /\ IsLowerLetter(t[i])
                /\ IsLowerLetter(t[i + 1])
                /\ t[i + 2] = "-"
                /\ IsLowerLetter(t[i + 3])
                /\ IsLowerLetter(t[i + 4])
                /\ (i = 1 \/ ~IsWordChar(t[i - 1]))
                /\ (i + 4 = Len(t) \/ ~IsWordChar(t[i + 5]))}
    IN  IF S = {} THEN 0 ELSE CHOOSE i \in S : \A j \in S : i <= j

\* the language_map dictionary
language_map ==
      <<"z", "h", "-", "c", "n">> :> <<"z", "h", "-", "C", "N">> @@
      <<"z", "h", "-", "t", "w">> :> <<"z", "h", "-", "T", "W">> @@
      <<"z", "h", "-", "h", "a", "n", "s">> :> <<"z", "h", "-", "C", "N">> @@
      <<"z", "h", "-", "h", "a", "n", "t">> :> <<"z", "h", "-", "T", "W">> @@
      <<"z", "h">> :> <<"z", "h", "-", "C", "N">> @@
      <<"c", "h", "i", "n", "e", "s", "e">> :> <<"z", "h", "-", "C", "N">> @@
      <<"c", "h", "i", "n", "e", "s", "e", " ", "s", "i", "m", "p", "l", "i", "f", "i", "e", "d">> :> <<"z", "h", "-", "C", "N">> @@
      <<"c", "h", "i", "n", "e", "s", "e", " ", "t", "r", "a", "d", "i", "t", "i", "o", "n", "a", "l">> :> <<"z", "h", "-", "T", "W">> @@
      <<"i", "w">> :> <<"h", "e">> @@
      <<"h", "e", "b", "r", "e", "w">> :> <<"h", "e">> @@
      <<"j", "w">> :> <<"j", "v">> @@
      <<"j", "a", "v", "a", "n", "e", "s", "e">> :> <<"j", "v">> @@
      <<"n", "b">> :> <<"n", "o">> @@
      <<"n", "n">> :> <<"n", "o">> @@
      <<"n", "o", "r", "w", "e", "g", "i", "a", "n">> :> <<"n", "o">> @@
      <<"n", "o", "r", "w", "e", "g", "i", "a", "n", " ", "b", "o", "k", "m", "å", "l">> :> <<"n", "o">> @@
      <<"n", "o", "r", "w", "e", "g", "i", "a", "n", " ", "n", "y", "n", "o", "r", "s", "k">> :> <<"n", "o">> @@
      <<"f", "i", "l">> :> <<"t", "l">> @@
      <<"f", "i", "l", "i", "p", "i", "n", "o">> :> <<"t", "l">> @@
      <<"t", "a", "g", "a", "l", "o", "g">> :> <<"t", "l">> @@
      <<"e", "n", "g", "l", "i", "s", "h">> :> <<"e", "n">> @@
      <<"s", "p", "a", "n", "i", "s", "h">> :> <<"e", "s">> @@
      <<"f", "r", "e", "n", "c", "h">> :> <<"f", "r">> @@
      <<"g", "e", "r", "m", "a", "n">> :> <<"d", "e">> @@
      <<"i", "t", "a", "l", "i", "a", "n">> :> <<"i", "t">> @@
      <<"p", "o", "r", "t", "u", "g", "u", "e", "s", "e">> :> <<"p", "t">> @@
      <<"r", "u", "s", "s", "i", "a", "n">> :> <<"r", "u">> @@
      <<"j", "a", "p", "a", "n", "e", "s", "e">> :> <<"j", "a">> @@
      <<"k", "o", "r", "e", "a", "n">> :> <<"k", "o">> @@
      <<"a", "r", "a", "b", "i", "c">> :> <<"a", "r">> @@
      <<"h", "i", "n", "d", "i">> :> <<"h", "i">> @@
      <<"b", "e", "n", "g", "a", "l", "i">> :> <<"b", "n">> @@
      <<"d", "u", "t", "c", "h">> :> <<"n", "l">> @@
      <<"t", "u", "r", "k", "i", "s", "h">> :> <<"t", "r">> @@
      <<"v", "i", "e", "t", "n", "a", "m", "e", "s", "e">> :> <<"v", "i">> @@
      <<"t", "h", "a", "i">> :> <<"t", "h">> @@
      <<"p", "e", "r", "s", "i", "a", "n">> :> <<"f", "a">> @@
      <<"p", "o", "l", "i", "s", "h">> :> <<"p", "l">> @@
      <<"u", "k", "r", "a", "i", "n", "i", "a", "n">> :> <<"u", "k">> @@
      <<"s", "w", "e", "d", "i", "s", "h">> :> <<"s", "v">> @@
      <<"f", "i", "n", "n", "i", "s", "h">> :> <<"f", "i">> @@
      <<"d", "a", "n", "i", "s", "h">> :> <<"d", "a">> @@
      <<"g", "r", "e", "e", "k">> :> <<"e", "l">> @@
      <<"c", "z", "e", "c", "h">> :> <<"c", "s">> @@
      <<"h", "u", "n", "g", "a", "r", "i", "a", "n">> :> <<"h", "u">> @@
      <<"r", "o", "m", "a", "n", "i", "a", "n">> :> <<"r", "o">> @@
      <<"a", "u", "t", "o", "-", "d", "e", "t", "e", "c", "t">> :> <<"a", "u", "t", "o">> @@
      <<"a", "u", "t", "o", "m", "a", "t", "i", "c">> :> <<"a", "u", "t", "o">> @@
      <<"u", "n", "k", "n", "o", "w", "n">> :> <<"a", "u", "t", "o">> @@
      <<"c", "a">> :> <<"e", "s">>

format_language_code(code) ==
    LET lower_code == IF IsStr(code) THEN Lower(code) ELSE <<>>
        m == TwoLetterWord(lower_code)
        r == LangRegion(lower_code)
        lang == SubSeq(lower_code, r, r + 1)
        region == SubSeq(lower_code, r + 3, r + 4)
    IN  IF code = AUTO \/ code = <<>> \/ code = NoneV THEN AUTO
        ELSE IF lower_code \in DOMAIN language_map THEN language_map[lower_code]
        ELSE IF IsStr(code) /\ Len(code) > 2 /\ m # 0
             THEN SubSeq(lower_code, m, m + 1)
        ELSE IF IsStr(code) /\ Len(code) > 2 /\ r # 0
             THEN IF lang = <<"z", "h">> /\ region = <<"c", "n">>
                  THEN <<"z", "h", "-", "C", "N">>
                  ELSE IF lang = <<"z", "h">> /\ region \in {<<"t", "w">>, <<"h", "k">>}
                  THEN <<"z", "h", "-", "T", "W">>
                  ELSE lang
        ELSE IF IsStr(code) /\ Len(code) = 2 THEN Lower(code)
        ELSE AUTO
(***************************************************************************)
(* The translation cache of pdf_processor.py: one file per language pair,  *)
(* a dictionary from text hash to translated text.                         *)
(***************************************************************************)
EmptyDict == <<>>
Put(d, k, v) == (k :> v) @@ d

\* get_cache_path: the file is named after the two codes as they are passed
get_cache_path(source_lang, target_lang) == <<source_lang, target_lang>>

\* load_translation_cache: the stored dictionary, or {} when there is no file
load_translation_cache(files, source_lang, target_lang) ==
    IF get_cache_path(source_lang, target_lang) \in DOMAIN files
    THEN files[get_cache_path(source_lang, target_lang)]
    ELSE EmptyDict

\* save_translation_cache: the whole file is rewritten from the dictionary
save_translation_cache(files, cache, source_lang, target_lang) ==
    Put(files, get_cache_path(source_lang, target_lang), cache)

(***************************************************************************)
(* One call of a translation client, run by a worker.                      *)
(***************************************************************************)
NumWorkers == 2
Workers == 1..NumWorkers
NotYet == <<"NotYet">>

IdleClient ==
    [fn |-> "none", pc |-> "idle", text |-> <<>>, src |-> <<>>, tgt |-> <<>>,
     k4 |-> FALSE, fsrc |-> <<>>, ftgt |-> <<>>, cleaned |-> <<>>,
     cache |-> EmptyDict, strat |-> 0, sents |-> <<>>, results |-> <<>>,
     attempts |-> 0, tr |-> NoneV, ret |-> NotYet, raised |-> FALSE,
     ncalls |-> 0, allFailed |-> TRUE, allRaised |-> TRUE,
     firstEcho |-> FALSE, hit |-> "no"]

\* the client record after one more request got outcome o for request text t
Called(c, o, t) ==
    [c EXCEPT !.ncalls = @ + 1,
              !.allFailed = @ /\ FailedOutcome(o, t),
              !.allRaised = @ /\ o = "raise",
              !.firstEcho = IF c.ncalls = 0
                            THEN o # "raise" /\ Value(o, t) = t
                            ELSE @]

Request(w, svc, src, tgt, t) ==
    [w |-> w, svc |-> svc, src |-> src, tgt |-> tgt, text |-> t]

\* the requests issued so far, kept worker by worker, each worker's in the
\* order it issued them
Logged(l, r) ==
    SelectSeq(l, LAMBDA x : x.w <= r.w) \o <<r>>
        \o SelectSeq(l, LAMBDA x : x.w > r.w)


(***************************************************************************)
(* pdf_processor.translate_chunk                                           *)
(***************************************************************************)
\* the key functools.lru_cache files a call under: its arguments as passed
LruKey(c) == <<c.text, c.src, c.tgt, c.k4>>

\* "Verify translation actually happened"
ChunkAccepts(translated, cleaned_text) ==
    /\ Truthy(translated)
    /\ Strip(translated) # <<>>
    /\ translated # cleaned_text

\* translation_services with MyMemory ahead of Google: an order the list
\* does not have
StrategyRequestMyMemoryFirst(w, k, c) ==
    Request(w,
            IF k \in {1, 2} THEN "mymemory" ELSE "google",
            IF k \in {1, 3} THEN c.fsrc ELSE AUTO,
            c.ftgt, c.cleaned)

\* the request of strategy k of translation_services, k in 1..4
StrategyRequest(w, k, c) ==
    Request(w,
            IF k \in {1, 2} THEN "google" ELSE "mymemory",
            IF k \in {1, 3} THEN c.fsrc ELSE AUTO,
            c.ftgt, c.cleaned)

\* a successful strategy: the entry is added to the dictionary loaded at the
\* start of the call and the file is rewritten from it
ChunkSuccess(w, c, translated) ==
    /\ disk' = save_translation_cache(
                   disk, Put(c.cache, TextHash(c.text), translated), c.src, c.tgt)
    /\ cl' = [cl EXCEPT ![w] =
                 [c EXCEPT !.cache = Put(c.cache, TextHash(c.text), translated),
                           !.ret = translated, !.pc = "tc_store"]]

\* the lru_cache wrapper: a call with arguments seen before is answered from
\* memory and translate_chunk's body does not run
lru_lookup(w) ==
    LET c == cl[w] IN
    /\ c.pc = "tc_enter"
    /\ cl' = [cl EXCEPT ![w] =
                 IF LruKey(c) \in DOMAIN lru
                 THEN [c EXCEPT !.ret = lru[LruKey(c)], !.hit = "lru", !.pc = "done"]
                 ELSE [c EXCEPT !.pc = "tc_body"]]
    /\ UNCHANGED <<log, disk, lru, pipe>>

\* translate_chunk up to the first strategy: blank check, disk cache lookup,
\* code formatting, strip, short-text check
translate_chunk(w) ==
    LET c == cl[w]
        cache == load_translation_cache(disk, c.src, c.tgt)
        h == TextHash(c.text)
        cleaned_text == Strip(c.text)
    IN
    /\ c.pc = "tc_body"
    /\ cl' = [cl EXCEPT ![w] =
                 IF Strip(c.text) = <<>>
                 THEN [c EXCEPT !.ret = <<>>, !.pc = "tc_store"]
                 ELSE IF h \in DOMAIN cache /\ Truthy(cache[h])
                                            /\ Strip(cache[h]) # <<>>
                 THEN [c EXCEPT !.cache = cache, !.ret = cache[h],
                                !.hit = "disk", !.pc = "tc_store"]
                 ELSE IF Len(cleaned_text) < 2
                 THEN [c EXCEPT !.cache = cache, !.cleaned = cleaned_text,
                                !.ret = cleaned_text, !.pc = "tc_store"]
                 ELSE [c EXCEPT !.cache = cache, !.cleaned = cleaned_text,
                                !.fsrc = format_language_code(c.src),
                                !.ftgt = format_language_code(c.tgt),
                                !.strat = 1, !.pc = "tc_service"]]
    /\ UNCHANGED <<log, disk, lru, pipe>>

\* strategies 1 to 4: try_google_translation / try_mymemory_translation with
\* the given source and with 'auto'
translation_service(w) ==
    \E o \in ServiceOutcomes :
        LET c == cl[w]
            c1 == Called(c, o, c.cleaned)
            translated == Value(o, c.cleaned)
        IN
        /\ c.pc = "tc_service"
        /\ log' = Logged(log, StrategyRequest(w, c.strat, c))
        /\ IF o # "raise" /\ ChunkAccepts(translated, c.cleaned)
           THEN ChunkSuccess(w, c1, translated)
           ELSE /\ disk' = disk
                /\ cl' = [cl EXCEPT ![w] =
                             IF c.strat < 4
                             THEN [c1 EXCEPT !.strat = @ + 1]
                             ELSE [c1 EXCEPT !.strat = 5,
                                             !.sents = SplitSentences(c.cleaned),
                                             !.results = <<>>,
                                             !.pc = "tc_sentence"]]
        /\ UNCHANGED <<lru, pipe>>

\* strategy 5, try_chunk_translation: the next sentence goes to Google; a
\* blank sentence is skipped, a raise keeps the sentence itself
try_chunk_translation(w) ==
    \E o \in ServiceOutcomes :
        LET c == cl[w]
            sentence == Head(c.sents)
            result == Value(o, sentence)
            c1 == Called(c, o, sentence)
        IN
        /\ c.pc = "tc_sentence"
        /\ c.sents # <<>>
        /\ IF Strip(sentence) = <<>>
           THEN /\ log' = log
                /\ cl' = [cl EXCEPT ![w] = [c EXCEPT !.sents = Tail(@)]]
           ELSE /\ log' = Logged(log, Request(w, "google", c.fsrc, c.ftgt, sentence))
                /\ cl' = [cl EXCEPT ![w] =
                             IF o = "raise"
                             THEN [c1 EXCEPT !.results = Append(@, sentence),
                                             !.sents = Tail(@)]
                             ELSE IF Truthy(result) /\ result # sentence
                             THEN [c1 EXCEPT !.results = Append(@, result),
                                             !.sents = Tail(@)]
                             ELSE [c1 EXCEPT !.pc = "tc_sentence_alt"]]
        /\ UNCHANGED <<disk, lru, pipe>>

\* strategy 5: Google left the sentence unchanged, so MyMemory is asked; its
\* answer is taken as it is, a raise keeps the sentence itself
try_chunk_translation_mymemory(w) ==
    \E o \in ServiceOutcomes :
        LET c == cl[w]
            sentence == Head(c.sents)
            c1 == Called(c, o, sentence)
        IN
        /\ c.pc = "tc_sentence_alt"
        /\ log' = Logged(log, Request(w, "mymemory", c.fsrc, c.ftgt, sentence))
        /\ cl' = [cl EXCEPT ![w] =
                     [c1 EXCEPT !.results =
                                    Append(@, IF o = "raise" THEN sentence
                                              ELSE Value(o, sentence)),
                                !.sents = Tail(@),
                                !.pc = "tc_sentence"]]
        /\ UNCHANGED <<disk, lru, pipe>>

\* strategy 5: the results are joined with single spaces (joining a None
\* raises, which counts as a failed strategy) and verified like the others;
\* after the last strategy the stripped text is returned
try_chunk_translation_join(w) ==
    LET c == cl[w]
        joined == JoinWith(<<" ">>, c.results)
        raises == \E i \in 1..Len(c.results) : c.results[i] = NoneV
    IN
    /\ c.pc = "tc_sentence"
    /\ c.sents = <<>>
    /\ IF ~raises /\ ChunkAccepts(joined, c.cleaned)
       THEN ChunkSuccess(w, c, joined)
       ELSE /\ disk' = disk
            /\ cl' = [cl EXCEPT ![w] =
                         [c EXCEPT !.ret = c.cleaned, !.pc = "tc_store"]]
    /\ UNCHANGED <<log, lru, pipe>>

\* the lru_cache wrapper files the returned value under the call's arguments
lru_store(w) ==
    LET c == cl[w] IN
    /\ c.pc = "tc_store"
    /\ lru' = Put(lru, LruKey(c), c.ret)
    /\ cl' = [cl EXCEPT ![w] = [c EXCEPT !.pc = "done"]]
    /\ UNCHANGED <<log, disk, pipe>>

(***************************************************************************)
(* robust_pdf_translator.translate_text                                    *)
(***************************************************************************)
Return(c, v) == [c EXCEPT !.ret = v, !.pc = "done"]

\* the checks before the first request
robust_translate_text(w) ==
    LET c == cl[w] IN
    /\ c.pc = "rb_enter"
    /\ cl' = [cl EXCEPT ![w] =
                 IF Strip(c.text) = <<>> THEN Return(c, <<>>)
                 ELSE IF c.src = c.tgt THEN Return(c, c.text)
                 ELSE [c EXCEPT !.pc = "rb_primary"]]
    /\ UNCHANGED <<log, disk, lru, pipe>>

\* GoogleTranslator(source_lang, target_lang): whatever it answers is returned
robust_translate_text_primary(w) ==
    \E o \in ServiceOutcomes :
        LET c == cl[w]
            c1 == Called(c, o, c.text)
        IN
        /\ c.pc = "rb_primary"
        /\ log' = Logged(log, Request(w, "google", c.src, c.tgt, c.text))
        /\ cl' = [cl EXCEPT ![w] =
                     IF o = "raise" THEN [c1 EXCEPT !.pc = "rb_auto"]
                     ELSE Return(c1, Value(o, c.text))]
        /\ UNCHANGED <<disk, lru, pipe>>

\* after a raise: GoogleTranslator('auto', target_lang); after a second
\* raise the original text
robust_translate_text_auto(w) ==
    \E o \in ServiceOutcomes :
        LET c == cl[w]
            c1 == Called(c, o, c.text)
        IN
        /\ c.pc = "rb_auto"
        /\ log' = Logged(log, Request(w, "google", AUTO, c.tgt, c.text))
        /\ cl' = [cl EXCEPT ![w] =
                     IF o = "raise" THEN Return(c1, c.text)
                     ELSE Return(c1, Value(o, c.text))]
        /\ UNCHANGED <<disk, lru, pipe>>

(***************************************************************************)
(* aggressive_translate.translate_text_with_fallbacks                      *)
(***************************************************************************)
\* max_attempts
max_attempts == 3

\* "Check if translation actually worked (changed the text)"
RetryAccepts(translated, text) ==
    /\ Truthy(translated)
    /\ ~IsSpace(translated)
    /\ Lower(translated) # Lower(text)

\* the checks before the first request and the Spanish override
translate_text_with_fallbacks(w) ==
    LET c == cl[w] IN
    /\ c.pc = "ag_enter"
    /\ cl' = [cl EXCEPT ![w] =
                 IF c.text = <<>> \/ IsSpace(c.text) \/ Len(c.text) < 2
                 THEN Return(c, c.text)
                 ELSE IF c.src = c.tgt THEN Return(c, c.text)
                 ELSE [c EXCEPT !.fsrc = IF c.tgt = EN /\ c.src # ES THEN ES
                                         ELSE c.src,
                                !.ftgt = c.tgt,
                                !.attempts = 0, !.pc = "ag_attempt"]]
    /\ UNCHANGED <<log, disk, lru, pipe>>

\* one pass of the while loop: a request to Google with the main approach
translate_text_with_fallbacks_attempt(w) ==
    \E o \in ServiceOutcomes :
        LET c == cl[w]
            c1 == [Called(c, o, c.text) EXCEPT !.attempts = @ + 1]
        IN
        /\ c.pc = "ag_attempt"
        /\ c.attempts < max_attempts
        /\ log' = Logged(log, Request(w, "google", c.fsrc, c.ftgt, c.text))
        /\ cl' = [cl EXCEPT ![w] =
                     IF o # "raise" /\ RetryAccepts(Value(o, c.text), c.text)
                     THEN Return(c1, Value(o, c.text))
                     ELSE IF c1.attempts < max_attempts THEN c1
                     ELSE [c1 EXCEPT !.pc = "ag_emergency"]]
        /\ UNCHANGED <<disk, lru, pipe>>

\* the emergency approach: GoogleTranslator(source="auto", target="en")
translate_text_with_fallbacks_emergency(w) ==
    \E o \in ServiceOutcomes :
        LET c == cl[w]
            c1 == Called(c, o, c.text)
            emergency_result == Value(o, c.text)
        IN
        /\ c.pc = "ag_emergency"
        /\ log' = Logged(log, Request(w, "google", AUTO, EN, c.text))
        /\ cl' = [cl EXCEPT ![w] =
                     IF o # "raise" /\ Truthy(emergency_result)
                                    /\ emergency_result # c.text
                     THEN Return(c1, emergency_result)
                     ELSE Return(c1, c.text)]
        /\ UNCHANGED <<disk, lru, pipe>>

(***************************************************************************)
(* exact_layout_translate.translate_text (extreme_translate and            *)
(* pure_text_translate carry the same function)                            *)
(***************************************************************************)
exact_translate_text(w) ==
    LET c == cl[w] IN
    /\ c.pc = "ex_enter"
    /\ cl' = [cl EXCEPT ![w] =
                 IF c.text = <<>> \/ IsSpace(c.text) \/ Len(c.text) < 2
                 THEN Return(c, c.text)
                 ELSE IF c.src = c.tgt THEN Return(c, c.text)
                 ELSE [c EXCEPT !.fsrc = IF Lower(c.src) = ES /\ Lower(c.tgt) = EN
                                            /\ c.src # ES
                                         THEN ES ELSE c.src,
                                !.ftgt = c.tgt,
                                !.attempts = 0, !.pc = "ex_attempt"]]
    /\ UNCHANGED <<log, disk, lru, pipe>>

\* one pass of the while loop; after max_attempts passes the original text
exact_translate_text_attempt(w) ==
    \E o \in ServiceOutcomes :
        LET c == cl[w]
            c1 == [Called(c, o, c.text) EXCEPT !.attempts = @ + 1]
        IN
        /\ c.pc = "ex_attempt"
        /\ c.attempts < max_attempts
        /\ log' = Logged(log, Request(w, "google", c.fsrc, c.ftgt, c.text))
        /\ cl' = [cl EXCEPT ![w] =
                     IF o # "raise" /\ RetryAccepts(Value(o, c.text), c.text)
                     THEN Return(c1, Value(o, c.text))
                     ELSE IF c1.attempts < max_attempts THEN c1
                     ELSE Return(c1, c.text)]
        /\ UNCHANGED <<disk, lru, pipe>>

(***************************************************************************)
(* guaranteed_translate.translate_text_directly (texts of at most 1000     *)
(* characters: attempt_translation sends them in one request)              *)
(***************************************************************************)
\* retries of attempt_translation after its first try
MaxRetries == 3
\* the unchanged-text fallbacks are tried for texts longer than this
UnchangedMinLen == 10

\* source and target of attempt k: the first try, the Spanish fallback, the
\* English fallback
AttemptSource(c) == IF c.strat = 2 THEN ES ELSE c.fsrc
AttemptTarget(c) == IF c.strat = 3 THEN EN ELSE c.tgt

\* "If all strategies failed, fallback to original text"
DirectFinal(c, translated) ==
    IF ~Truthy(translated) \/ IsSpace(translated)
    THEN Return(c, c.text)
    ELSE Return(c, translated)

\* what follows attempt c.strat having returned v (None after the retries)
DirectAfter(c, v) ==
    LET translated == IF c.strat = 1 THEN v ELSE c.tr
        c1 == [c EXCEPT !.tr = translated, !.attempts = 0]
        english == IF c.tgt # EN
                   THEN [c1 EXCEPT !.strat = 3]
                   ELSE DirectFinal(c1, translated)
    IN  CASE c.strat = 1 ->
               IF Truthy(v) /\ Len(c.text) > UnchangedMinLen
                            /\ Lower(c.text) = Lower(v)
               THEN IF c.fsrc # ES /\ c.tgt = EN
                    THEN [c1 EXCEPT !.strat = 2]
                    ELSE english
               ELSE DirectFinal(c1, translated)
          [] c.strat = 2 ->
               IF Truthy(v) /\ v # c.text THEN Return(c1, v) ELSE english
          [] OTHER ->
               IF Truthy(v) /\ v # c.text THEN Return(c1, v)
               ELSE DirectFinal(c1, translated)

\* the checks before the first request; for source 'auto' or 'ca' the
\* language is detected from the text (langdetect may name any language or
\* fail, which keeps the given source)
translate_text_directly(w) ==
    \E detected \in {ES, EN, CA} \cup {NoneV} :
        LET c == cl[w] IN
        /\ c.pc = "gt_enter"
        /\ (c.src \notin {AUTO, CA} => detected = NoneV)
        /\ cl' = [cl EXCEPT ![w] =
                     IF c.text = <<>> \/ IsSpace(c.text) THEN Return(c, c.text)
                     ELSE IF Len(c.text) < 2 THEN Return(c, c.text)
                     ELSE IF c.src = c.tgt THEN Return(c, c.text)
                     ELSE [c EXCEPT !.fsrc = IF detected = NoneV THEN c.src
                                             ELSE detected,
                                    !.strat = 1, !.attempts = 0,
                                    !.pc = "gt_attempt"]]
        /\ UNCHANGED <<log, disk, lru, pipe>>

\* a retry whatever the number of retries made
AlwaysRetry(retry_count) == TRUE

\* if retry_count < 3
MayRetry(retry_count) == retry_count < MaxRetries

\* attempt_translation: one request; a raise is retried up to MaxRetries
\* times and then gives None
attempt_translation(w) ==
    \E o \in ServiceOutcomes :
        LET c == cl[w]
            c1 == Called(c, o, c.text)
        IN
        /\ c.pc = "gt_attempt"
        /\ log' = Logged(log, Request(w, "google", AttemptSource(c),
                                      AttemptTarget(c), c.text))
        /\ cl' = [cl EXCEPT ![w] =
                     IF o = "raise"
                     THEN IF MayRetry(c.attempts)
                          THEN [c1 EXCEPT !.attempts = @ + 1]
                          ELSE DirectAfter(c1, NoneV)
                     ELSE DirectAfter(c1, Value(o, c.text))]
        /\ UNCHANGED <<disk, lru, pipe>>

(***************************************************************************)
(* The clients called on their own: one call in a fresh process with no    *)
(* cache file.                                                             *)
(***************************************************************************)
ClientLangs == {ES, EN, CA, AUTO}
NoPipe == [pc |-> "off", service |-> "any"]

EntryPc(fn) ==
    CASE fn = "translate_chunk" -> "tc_enter"
      [] fn = "robust_translate_text" -> "rb_enter"
      [] fn = "translate_text_with_fallbacks" -> "ag_enter"
      [] fn = "exact_translate_text" -> "ex_enter"
      [] fn = "translate_text_directly" -> "gt_enter"

ClientFns ==
    {"translate_chunk", "robust_translate_text", "translate_text_with_fallbacks",
     "exact_translate_text", "translate_text_directly"}

\* a text long enough for the unchanged-text fallbacks of
\* translate_text_directly
LongText == [i \in 1..(UnchangedMinLen + 1) |-> "a"]
ClientTexts == Texts \cup {LongText}

StartCall(fn, text, src, tgt, k4) ==
    [IdleClient EXCEPT !.fn = fn, !.pc = EntryPc(fn), !.text = text,
                       !.src = src, !.tgt = tgt, !.k4 = k4]

ClientCall ==
    /\ \A w \in Workers : cl[w].pc = "idle"
    /\ \E fn \in ClientFns, text \in ClientTexts, src \in ClientLangs, tgt \in ClientLangs :
        /\ cl' = [cl EXCEPT ![1] = StartCall(fn, text, src, tgt, FALSE)]
        /\ UNCHANGED <<log, disk, lru, pipe>>

InitClient ==
    /\ cl = [w \in Workers |-> IdleClient]
    /\ log = <<>>
    /\ disk = EmptyDict
    /\ lru = EmptyDict
    /\ pipe = NoPipe

NextClient ==
    \/ ClientCall
    \/ lru_lookup(1)
    \/ translate_chunk(1)
    \/ translation_service(1)
    \/ try_chunk_translation(1)
    \/ try_chunk_translation_mymemory(1)
    \/ try_chunk_translation_join(1)
    \/ lru_store(1)
    \/ robust_translate_text(1)
    \/ robust_translate_text_primary(1)
    \/ robust_translate_text_auto(1)
    \/ translate_text_with_fallbacks(1)
    \/ translate_text_with_fallbacks_attempt(1)
    \/ translate_text_with_fallbacks_emergency(1)
    \/ exact_translate_text(1)
    \/ exact_translate_text_attempt(1)
    \/ translate_text_directly(1)
    \/ attempt_translation(1)

SpecClient == InitClient /\ [][NextClient]_vars
(***************************************************************************)
(* Claims about the translation clients.                                   *)
(***************************************************************************)
Finished(w) == cl[w].pc = "done"

\* C3: when every request of a call failed (it raised, or answered nothing,
\* blank text or the request text unchanged), the client returns the
\* caller's original text and raises nothing to the caller.
C3_FallbackReturnsOriginal ==
    \A w \in Workers :
        (Finished(w) /\ cl[w].ncalls > 0 /\ cl[w].allFailed)
            => (cl[w].ret = cl[w].text /\ ~cl[w].raised)

\* C4: when the primary request returned the input unchanged and the client
\* ends up returning the unchanged text, it has issued at least one further
\* request before that.
C4_FallbackBeforeUnchanged ==
    \A w \in Workers :
        (Finished(w) /\ cl[w].firstEcho /\ cl[w].ret \in {cl[w].text, Strip(cl[w].text)})
            => cl[w].ncalls >= 2

\* C7: a call with the same source and target language returns exactly the
\* input text and issues no request, for every text and every client.
C7_SameLanguageIdentity ==
    \A w \in Workers :
        (Finished(w) /\ cl[w].src = cl[w].tgt)
            => (cl[w].ret = cl[w].text /\ cl[w].ncalls = 0)

(***************************************************************************)
(* Documents.  A page has its dimensions and its text fragments (blocks or *)
(* spans) in reading order; an output page holds, fragment by fragment,    *)
(* the text a reader of the page sees there.                               *)
(***************************************************************************)
MaxPages == 2

PageKinds ==
    {[dim |-> "A4", frags |-> <<>>],
     [dim |-> "Letter", frags |-> << <<"a">> >>],
     [dim |-> "A4", frags |-> << <<"a", "a", "\n">> >>],
     [dim |-> "Letter", frags |-> << <<"a", "a", "a">> >>]}

Docs == UNION {[1..n -> PageKinds] : n \in 1..MaxPages}

\* fitz.open(): a document without pages
EmptyDocument == <<>>

\* Document.new_page(width, height) followed by Page.show_pdf_page(): a page
\* of the given page's size showing the given page
new_page(document, page) == Append(document, page)

\* Document.new_page() without arguments: an empty page of the default size
DefaultPage == [dim |-> "A4", frags |-> <<>>]

\* Document.delete_page(pno), pno counted from 0
delete_page(document, pno) ==
    [i \in 1..(Len(document) - 1) |->
        IF i <= pno THEN document[i] ELSE document[i + 1]]

\* what Page.insert_text / insert_textbox leaves on the page: the text, or
\* nothing when the text is None (the call raises)
Inserted(v) == IF v = NoneV THEN <<>> ELSE v

\* draw_rect over fragment f of page p and insert text v there
Replace(document, p, f, v) ==
    [document EXCEPT ![p].frags[f] = Inserted(v)]

(***************************************************************************)
(* One run of a pipeline.  sent is the set of texts the run has sent to a  *)
(* translation service so far; outage says that every request so far       *)
(* raised.                                                                 *)
(***************************************************************************)
IdlePipe ==
    [pc |-> "idle", variant |-> "none", src |-> <<>>, tgt |-> <<>>,
     fsrc |-> <<>>, ftgt |-> <<>>, doc |-> <<>>, out |-> <<>>,
     page |-> 0, frag |-> 0, k |-> 0, status |-> "running",
     sent |-> {}, outage |-> TRUE, copied |-> FALSE,
     blocks |-> <<>>, translations |-> <<>>,
     translation_cache |-> EmptyDict, translation_mapping |-> EmptyDict,
     unique_texts |-> {}, batches |-> <<>>, taken |-> 0,
     task |-> [w \in Workers |-> [batch |-> 0, pos |-> 0, results |-> <<>>]],
     finished |-> EmptyDict, collected |-> {}, completed |-> <<>>,
     service |-> "any", run |-> 1, removed |-> TRUE, seed |-> "none",
     stored |-> EmptyDict, prev |-> <<>>,
     chunks |-> <<>>, results |-> EmptyDict, calls |-> EmptyDict]

\* the run after a request for text t got outcome o
Sent(p, t, o) ==
    [p EXCEPT !.sent = @ \cup {t}, !.outage = @ /\ o = "raise"]

\* shutil.copy(input_path, output_path); return True
Copy(p) ==
    [p EXCEPT !.out = p.doc, !.copied = TRUE, !.status = "ok", !.pc = "done"]

\* Document.save(output_path); return True
Save(p) == [p EXCEPT !.status = "ok", !.pc = "done"]

\* return False
Fail(p) == [p EXCEPT !.status = "failed", !.pc = "done"]

TestEn ==
    <<"T", "h", "i", "s", " ", "i", "s", " ", "a", " ", "t", "e", "s", "t",
      " ", "s", "e", "n", "t", "e", "n", "c", "e", ".">>
TestCa ==
    <<"A", "q", "u", "e", "s", "t", "a", " ", "é", "s", " ", "u", "n", "a",
      " ", "f", "r", "a", "s", "e", " ", "d", "e", " ", "p", "r", "o", "v",
      "a", ".">>
TestEs ==
    <<"E", "s", "t", "a", " ", "e", "s", " ", "u", "n", "a", " ", "f", "r",
      "a", "s", "e", " ", "d", "e", " ", "p", "r", "u", "e", "b", "a", ".">>

\* test_text of direct_translate_pdf and force_translate_pdf
test_text(source_lang) ==
    IF source_lang = CA THEN TestCa
    ELSE IF source_lang = ES THEN TestEs
    ELSE TestEn

(***************************************************************************)
(* direct_translate.direct_translate_pdf                                   *)
(***************************************************************************)
direct_translate_pdf ==
    /\ pipe.pc = "dt_enter"
    /\ pipe' = IF pipe.src = pipe.tgt THEN Copy(pipe)
               ELSE [pipe EXCEPT !.pc = "dt_test"]
    /\ UNCHANGED <<cl, log, disk, lru>>

\* the test translation: an exception ends the run with False
direct_test_translation ==
    /\ pipe.pc = "dt_test"
    /\ \E o \in ServiceOutcomes :
        pipe' = IF o = "raise"
                THEN Fail(Sent(pipe, test_text(pipe.src), o))
                ELSE [Sent(pipe, test_text(pipe.src), o) EXCEPT
                         !.out = EmptyDocument, !.page = 1, !.pc = "dt_page"]
    /\ UNCHANGED <<cl, log, disk, lru>>

direct_new_page ==
    /\ pipe.pc = "dt_page"
    /\ pipe' = IF pipe.page > Len(pipe.doc) THEN Save(pipe)
               ELSE [pipe EXCEPT !.out = new_page(pipe.out, pipe.doc[pipe.page]),
                                 !.frag = 1, !.pc = "dt_span"]
    /\ UNCHANGED <<cl, log, disk, lru>>

\* one span: the text is sent to the translator; building expanded_rect then
\* raises (a Rect has no y3), so the span stays as show_pdf_page drew it
direct_span ==
    /\ pipe.pc = "dt_span"
    /\ IF pipe.frag > Len(pipe.doc[pipe.page].frags)
       THEN pipe' = [pipe EXCEPT !.page = @ + 1, !.pc = "dt_page"]
       ELSE LET text == Strip(pipe.doc[pipe.page].frags[pipe.frag]) IN
            IF text = <<>> \/ Len(text) < 2
            THEN pipe' = [pipe EXCEPT !.frag = @ + 1]
            ELSE \E o \in ServiceOutcomes :
                    pipe' = [Sent(pipe, text, o) EXCEPT !.frag = @ + 1]
    /\ UNCHANGED <<cl, log, disk, lru>>

(***************************************************************************)
(* force_translate_pdf.force_translate_pdf                                 *)
(***************************************************************************)
force_translate_pdf ==
    /\ pipe.pc = "ft_enter"
    /\ pipe' = IF pipe.src = pipe.tgt THEN Copy(pipe)
               ELSE [pipe EXCEPT !.pc = "ft_test"]
    /\ UNCHANGED <<cl, log, disk, lru>>

\* the test translation: an exception is printed and the run goes on
force_test_translation ==
    /\ pipe.pc = "ft_test"
    /\ \E o \in ServiceOutcomes :
        pipe' = [Sent(pipe, test_text(pipe.src), o) EXCEPT
                    !.out = EmptyDocument, !.translation_cache = EmptyDict,
                    !.page = 1, !.pc = "ft_page"]
    /\ UNCHANGED <<cl, log, disk, lru>>

force_new_page ==
    /\ pipe.pc = "ft_page"
    /\ pipe' = IF pipe.page > Len(pipe.doc) THEN Save(pipe)
               ELSE [pipe EXCEPT !.out = new_page(pipe.out, pipe.doc[pipe.page]),
                                 !.translations = <<>>,
                                 !.frag = 1, !.pc = "ft_span"]
    /\ UNCHANGED <<cl, log, disk, lru>>

\* one text instance: skipped when short, taken from translation_cache, or
\* sent to Google (the original text is kept when the request raises)
force_span ==
    /\ pipe.pc = "ft_span"
    /\ IF pipe.frag > Len(pipe.doc[pipe.page].frags)
       THEN pipe' = [pipe EXCEPT !.pc = "ft_render"]
       ELSE LET original_text == Strip(pipe.doc[pipe.page].frags[pipe.frag])
                Stored(p, v) ==
                    [p EXCEPT !.translations =
                                  Append(@, [frag |-> pipe.frag, translated |-> v]),
                              !.frag = @ + 1]
            IN
            IF Len(original_text) < 3
            THEN pipe' = [pipe EXCEPT !.frag = @ + 1]
            ELSE IF original_text \in DOMAIN pipe.translation_cache
            THEN pipe' = Stored(pipe, pipe.translation_cache[original_text])
            ELSE \E o \in ServiceOutcomes :
                    pipe' =
                        IF o = "raise"
                        THEN Stored(Sent(pipe, original_text, o), original_text)
                        ELSE Stored(
                                 [Sent(pipe, original_text, o) EXCEPT
                                     !.translation_cache =
                                         Put(@, original_text,
                                             Value(o, original_text))],
                                 Value(o, original_text))
    /\ UNCHANGED <<cl, log, disk, lru>>

RECURSIVE InsertAll(_, _, _)
\* the white boxes and the insert_text calls of one page
InsertAll(document, p, translations) ==
    IF translations = <<>> THEN document
    ELSE InsertAll(Replace(document, p, Head(translations).frag,
                           Head(translations).translated),
                   p, Tail(translations))

\* json.dump(translations) and the rendering of the page.  The list holds
\* fitz.Rect objects; whether json can write them depends on the installed
\* PyMuPDF, so a non-empty list may end the run with False.
force_render_page ==
    /\ pipe.pc = "ft_render"
    /\ \E dumped \in BOOLEAN :
        /\ pipe.translations = <<>> => dumped
        /\ pipe' = IF dumped
                   THEN [pipe EXCEPT !.out = InsertAll(pipe.out, pipe.page,
                                                       pipe.translations),
                                     !.page = @ + 1, !.pc = "ft_page"]
                   ELSE Fail(pipe)
    /\ UNCHANGED <<cl, log, disk, lru>>

(***************************************************************************)
(* A pipeline calling a translation client: worker w runs the call, the    *)
(* pipeline waits for it to return and takes the returned value.           *)
(***************************************************************************)
CallClient(w, fn, text, src, tgt) ==
    cl' = [cl EXCEPT ![w] = StartCall(fn, text, src, tgt, FALSE)]

\* the run after the client call of worker w returned: the call's requests
\* are added to the run's
Absorb(p, w) ==
    [p EXCEPT !.sent = @ \cup {log[i].text :
                                   i \in {j \in 1..Len(log) : log[j].w = w}},
              !.outage = @ /\ cl[w].allRaised]

Returned(w) ==
    /\ cl[w].pc = "done"
    /\ cl' = [cl EXCEPT ![w] = IdleClient]
    /\ log' = SelectSeq(log, LAMBDA r : r.w # w)

(***************************************************************************)
(* aggressive_translate.aggressive_translate_pdf                           *)
(***************************************************************************)
test_phrases ==
    << <<"E", "s", "t", "a", " ", "e", "s", " ", "u", "n", "a", " ", "p", "r",
         "u", "e", "b", "a", " ", "d", "e", " ", "t", "r", "a", "d", "u", "c",
         "c", "i", "ó", "n", ".">>,
       <<"D", "o", "c", "u", "m", "e", "n", "t", " ", "h", "a", "s", " ", "t",
         "e", "x", "t", " ", "i", "n", " ", "S", "p", "a", "n", "i", "s", "h",
         " ", "t", "h", "a", "t", " ", "n", "e", "e", "d", "s", " ", "E", "n",
         "g", "l", "i", "s", "h", " ", "t", "r", "a", "n", "s", "l", "a", "t",
         "i", "o", "n", ".">>,
       <<"H", "o", "l", "a", " ", "m", "u", "n", "d", "o", ",", " ", "e", "s",
         "t", "a", " ", "e", "s", " ", "u", "n", "a", " ", "f", "r", "a", "s",
         "e", " ", "e", "n", " ", "e", "s", "p", "a", "ñ", "o", "l", ".">> >>

aggressive_translate_pdf ==
    /\ pipe.pc = "at_enter"
    /\ pipe' = IF pipe.src = pipe.tgt THEN Copy(pipe)
               ELSE [pipe EXCEPT !.k = 1, !.pc = "at_test"]
    /\ UNCHANGED <<cl, log, disk, lru>>

\* the loop over test_phrases: each is translated and the result printed
aggressive_test_phrase ==
    /\ pipe.pc = "at_test"
    /\ IF pipe.k > Len(test_phrases)
       THEN /\ pipe' = [pipe EXCEPT !.out = EmptyDocument, !.page = 1,
                                    !.pc = "at_page"]
            /\ UNCHANGED cl
       ELSE /\ CallClient(1, "translate_text_with_fallbacks",
                          test_phrases[pipe.k], pipe.src, pipe.tgt)
            /\ pipe' = [pipe EXCEPT !.pc = "at_test_wait"]
    /\ UNCHANGED <<log, disk, lru>>

aggressive_test_result ==
    /\ pipe.pc = "at_test_wait"
    /\ Returned(1)
    /\ pipe' = [Absorb(pipe, 1) EXCEPT !.k = @ + 1, !.pc = "at_test"]
    /\ UNCHANGED <<disk, lru>>

aggressive_new_page ==
    /\ pipe.pc = "at_page"
    /\ pipe' = IF pipe.page > Len(pipe.doc) THEN Save(pipe)
               ELSE [pipe EXCEPT !.out = new_page(pipe.out, pipe.doc[pipe.page]),
                                 !.frag = 1, !.pc = "at_span"]
    /\ UNCHANGED <<cl, log, disk, lru>>

aggressive_span ==
    /\ pipe.pc = "at_span"
    /\ IF pipe.frag > Len(pipe.doc[pipe.page].frags)
       THEN /\ pipe' = [pipe EXCEPT !.page = @ + 1, !.pc = "at_page"]
            /\ UNCHANGED cl
       ELSE LET text == Strip(pipe.doc[pipe.page].frags[pipe.frag]) IN
            IF text = <<>> \/ Len(text) < 2
            THEN /\ pipe' = [pipe EXCEPT !.frag = @ + 1]
                 /\ UNCHANGED cl
            ELSE /\ CallClient(1, "translate_text_with_fallbacks", text,
                               pipe.src, pipe.tgt)
                 /\ pipe' = [pipe EXCEPT !.pc = "at_span_wait"]
    /\ UNCHANGED <<log, disk, lru>>

\* "Skip if translation failed (returned same text)", else cover and insert
aggressive_span_result ==
    LET text == Strip(pipe.doc[pipe.page].frags[pipe.frag])
        translated == cl[1].ret
    IN
    /\ pipe.pc = "at_span_wait"
    /\ Returned(1)
    /\ pipe' = [Absorb(pipe, 1) EXCEPT
                   !.out = IF Lower(text) = Lower(translated) THEN @
                           ELSE Replace(@, pipe.page, pipe.frag, translated),
                   !.frag = @ + 1, !.pc = "at_span"]
    /\ UNCHANGED <<disk, lru>>

(***************************************************************************)
(* robust_pdf_translator.translate_pdf                                     *)
(***************************************************************************)
\* the non-blank blocks of page p
PageBlocks(document, p) ==
    SelectSeq([f \in 1..Len(document[p].frags) |->
                  [page |-> p, frag |-> f, text |-> document[p].frags[f]]],
              LAMBDA b : Strip(b.text) # <<>>)

RECURSIVE BlocksUpTo(_, _)
BlocksUpTo(document, n) ==
    IF n = 0 THEN <<>>
    ELSE BlocksUpTo(document, n - 1) \o PageBlocks(document, n)

extract_text_blocks(document) == BlocksUpTo(document, Len(document))

\* translate_pdf: no block at all ends the run with False
robust_translate_pdf ==
    /\ pipe.pc = "rp_enter"
    /\ pipe' = IF extract_text_blocks(pipe.doc) = <<>> THEN Fail(pipe)
               ELSE [pipe EXCEPT !.blocks = extract_text_blocks(pipe.doc),
                                 !.translations = <<>>,
                                 !.k = 1, !.pc = "rp_translate"]
    /\ UNCHANGED <<cl, log, disk, lru>>

\* translate_blocks: one translate_text task per block.  The tasks share no
\* state and their results are sorted by position, so they are run here one
\* after the other in block order.
translate_blocks ==
    /\ pipe.pc = "rp_translate"
    /\ IF pipe.k > Len(pipe.blocks)
       THEN /\ pipe' = [pipe EXCEPT !.out = EmptyDocument, !.page = 1,
                                    !.pc = "rp_create"]
            /\ UNCHANGED cl
       ELSE /\ CallClient(1, "robust_translate_text", pipe.blocks[pipe.k].text,
                          pipe.src, pipe.tgt)
            /\ pipe' = [pipe EXCEPT !.pc = "rp_wait"]
    /\ UNCHANGED <<log, disk, lru>>

translate_blocks_result ==
    /\ pipe.pc = "rp_wait"
    /\ Returned(1)
    /\ pipe' = [Absorb(pipe, 1) EXCEPT
                   !.translations =
                       Append(@, [page |-> pipe.blocks[pipe.k].page,
                                  frag |-> pipe.blocks[pipe.k].frag,
                                  translated |-> cl[1].ret]),
                   !.k = @ + 1, !.pc = "rp_translate"]
    /\ UNCHANGED <<disk, lru>>

\* create_translated_pdf, one page: every block of the page is covered and
\* its translated text inserted
create_translated_pdf ==
    /\ pipe.pc = "rp_create"
    /\ pipe' = IF pipe.page > Len(pipe.doc) THEN Save(pipe)
               ELSE [pipe EXCEPT
                        !.out = InsertAll(
                                    new_page(pipe.out, pipe.doc[pipe.page]),
                                    pipe.page,
                                    SelectSeq(pipe.translations,
                                              LAMBDA b : b.page = pipe.page)),
                        !.page = @ + 1]
    /\ UNCHANGED <<cl, log, disk, lru>>

(***************************************************************************)
(* exact_layout_translate.exact_layout_translate_pdf: the input document   *)
(* is changed in place and saved under the output path.                    *)
(***************************************************************************)
exact_layout_translate_pdf ==
    /\ pipe.pc = "el_enter"
    /\ pipe' = [pipe EXCEPT !.out = pipe.doc, !.translation_cache = EmptyDict,
                            !.page = 1, !.frag = 1, !.pc = "el_span"]
    /\ UNCHANGED <<cl, log, disk, lru>>

exact_span ==
    /\ pipe.pc = "el_span"
    /\ IF pipe.page > Len(pipe.doc)
       THEN /\ pipe' = Save(pipe)
            /\ UNCHANGED cl
       ELSE IF pipe.frag > Len(pipe.doc[pipe.page].frags)
       THEN /\ pipe' = [pipe EXCEPT !.page = @ + 1, !.frag = 1]
            /\ UNCHANGED cl
       ELSE LET text == pipe.doc[pipe.page].frags[pipe.frag] IN
            IF text = <<>> \/ IsSpace(text)
            THEN /\ pipe' = [pipe EXCEPT !.frag = @ + 1]
                 /\ UNCHANGED cl
            ELSE IF text \in DOMAIN pipe.translation_cache
            THEN /\ pipe' = [pipe EXCEPT
                                !.out = Replace(@, pipe.page, pipe.frag,
                                                pipe.translation_cache[text]),
                                !.frag = @ + 1]
                 /\ UNCHANGED cl
            ELSE /\ CallClient(1, "exact_translate_text", text,
                               pipe.src, pipe.tgt)
                 /\ pipe' = [pipe EXCEPT !.pc = "el_wait"]
    /\ UNCHANGED <<log, disk, lru>>

exact_span_result ==
    LET text == pipe.doc[pipe.page].frags[pipe.frag]
        translated_text == cl[1].ret
    IN
    /\ pipe.pc = "el_wait"
    /\ Returned(1)
    /\ pipe' = [Absorb(pipe, 1) EXCEPT
                   !.translation_cache = Put(@, text, translated_text),
                   !.out = Replace(@, pipe.page, pipe.frag, translated_text),
                   !.frag = @ + 1, !.pc = "el_span"]
    /\ UNCHANGED <<disk, lru>>

(***************************************************************************)
(* pdf_processor.translate_pdf_with_images                                 *)
(***************************************************************************)
\* chunk_size: texts per translation task
chunk_size == 5

\* the file left where it is
Kept(files, path) == files

\* os.remove(path)
Remove(files, path) == [k \in DOMAIN files \ {path} |-> files[k]]

\* the temporary page made and left in the document
EmbedFontsKept(document) == Append(document, DefaultPage)

\* the temporary page made to embed the standard fonts, and its removal
EmbedFonts(document) == delete_page(Append(document, DefaultPage), 0)

\* the blocks of page p kept for translation: text blocks whose stripped
\* text has at least 2 characters (pages of the documents checked here have
\* at most 10 characters of text, so no whole-page block is built for a page
\* without such blocks)
page_blocks(document, p) ==
    SelectSeq(PageBlocks(document, p), LAMBDA b : Len(Strip(b.text)) >= 2)

all_text_blocks(document) ==
    {b.text : b \in UNION {{page_blocks(document, p)[i] :
                               i \in 1..Len(page_blocks(document, p))} :
                           p \in 1..Len(document)}}

\* list(set(...)): the order of the list is the set's iteration order
Orders(S) ==
    {s \in [1..Cardinality(S) -> S] :
        \A i, j \in 1..Cardinality(S) : i # j => s[i] # s[j]}

\* texts_to_translate[i:i+chunk_size] for i in range(0, len, chunk_size)
Batches(texts) ==
    [b \in 1..((Len(texts) + chunk_size - 1) \div chunk_size) |->
        SubSeq(texts, (b - 1) * chunk_size + 1,
               IF b * chunk_size < Len(texts) THEN b * chunk_size
               ELSE Len(texts))]

\* "Add cache entries to translation mapping"
FillMapping(mapping, cache, texts) ==
    [t \in texts \cup DOMAIN mapping |->
        IF t \in DOMAIN mapping THEN mapping[t]
        ELSE IF TextHash(t) \in DOMAIN cache THEN cache[TextHash(t)]
        ELSE t]

\* up to the submission of the translation tasks: code formatting,
\* same-language copy, removal and load of the cache file, font embedding,
\* collection and deduplication of the blocks, cache check
translate_pdf_with_images ==
    LET source_code == format_language_code(pipe.src)
        target_code == format_language_code(pipe.tgt)
        cache_path == get_cache_path(source_code, target_code)
        unique_texts == all_text_blocks(pipe.doc)
    IN
    /\ pipe.pc = "tp_enter"
    /\ IF source_code = target_code /\ source_code # AUTO
       THEN /\ pipe' = Copy(pipe)
            /\ UNCHANGED disk
       ELSE \E removed \in BOOLEAN :
            /\ cache_path \notin DOMAIN disk => removed
            /\ disk' = IF removed /\ cache_path \in DOMAIN disk
                       THEN Remove(disk, cache_path)
                       ELSE disk
            /\ LET translation_cache ==
                       load_translation_cache(disk', source_code, target_code)
                   texts_to_translate ==
                       {t \in unique_texts :
                           TextHash(t) \notin DOMAIN translation_cache}
               IN
               \E order \in Orders(texts_to_translate) :
                   pipe' = [pipe EXCEPT
                       !.fsrc = source_code, !.ftgt = target_code,
                       !.translation_cache = translation_cache,
                       !.translation_mapping = EmptyDict,
                       !.removed = removed,
                       !.out = EmbedFonts(EmptyDocument),
                       !.unique_texts = unique_texts,
                       !.batches = Batches(order),
                       !.taken = 0, !.finished = EmptyDict, !.collected = {},
                       !.page = 1,
                       !.pc = IF texts_to_translate = {} THEN "tp_mapping"
                              ELSE "tp_pool"]
    /\ UNCHANGED <<cl, log, lru>>

\* a free pool worker takes the next submitted task
pool_take(w) ==
    /\ pipe.pc = "tp_pool"
    /\ pipe.task[w].batch = 0
    /\ pipe.taken < Len(pipe.batches)
    /\ pipe' = [pipe EXCEPT !.taken = @ + 1,
                            !.task[w] = [batch |-> pipe.taken + 1, pos |-> 1,
                                         results |-> <<>>]]
    /\ UNCHANGED <<cl, log, disk, lru>>

\* the task's list comprehension calls translate_chunk for its next text
batch_call(w) ==
    LET t == pipe.task[w] IN
    /\ pipe.pc = "tp_pool"
    /\ t.batch > 0
    /\ cl[w].pc = "idle"
    /\ t.pos <= Len(pipe.batches[t.batch])
    /\ CallClient(w, "translate_chunk", pipe.batches[t.batch][t.pos],
                  pipe.fsrc, pipe.ftgt)
    /\ UNCHANGED <<pipe, log, disk, lru>>

\* translate_chunk returned; after the task's last text the task is done
batch_result(w) ==
    LET t == pipe.task[w]
        results == Append(t.results,
                          [text |-> pipe.batches[t.batch][t.pos],
                           translated |-> cl[w].ret])
    IN
    /\ pipe.pc = "tp_pool"
    /\ t.batch > 0
    /\ Returned(w)
    /\ pipe' = IF t.pos < Len(pipe.batches[t.batch])
               THEN [Absorb(pipe, w) EXCEPT !.task[w].pos = @ + 1,
                                            !.task[w].results = results]
               ELSE [Absorb(pipe, w) EXCEPT
                        !.task[w] = [batch |-> 0, pos |-> 0, results |-> <<>>],
                        !.finished = Put(@, t.batch, results)]
    /\ UNCHANGED <<disk, lru>>

RECURSIVE Collected(_, _)
\* the loop over a task's results: a non-blank result enters the mapping and
\* the cache dictionary, anything else maps the text to itself
Collected(p, results) ==
    IF results = <<>> THEN p
    ELSE LET r == Head(results) IN
         Collected(
             IF Truthy(r.translated) /\ Strip(r.translated) # <<>>
             THEN [p EXCEPT
                      !.translation_mapping = Put(@, r.text, r.translated),
                      !.translation_cache =
                          Put(@, TextHash(r.text), r.translated)]
             ELSE [p EXCEPT !.translation_mapping = Put(@, r.text, r.text)],
             Tail(results))

\* as_completed hands over a finished task
collect_results ==
    /\ pipe.pc = "tp_pool"
    /\ \E b \in DOMAIN pipe.finished \ pipe.collected :
        pipe' = [Collected(pipe, pipe.finished[b]) EXCEPT
                    !.collected = @ \cup {b}]
    /\ UNCHANGED <<cl, log, disk, lru>>

\* all tasks handed over: "Save updated cache"
save_updated_cache ==
    /\ pipe.pc = "tp_pool"
    /\ pipe.collected = 1..Len(pipe.batches)
    /\ disk' = save_translation_cache(disk, pipe.translation_cache,
                                      pipe.fsrc, pipe.ftgt)
    /\ pipe' = [pipe EXCEPT !.pc = "tp_mapping"]
    /\ UNCHANGED <<cl, log, lru>>

add_cache_entries ==
    /\ pipe.pc = "tp_mapping"
    /\ pipe' = [pipe EXCEPT
                   !.translation_mapping =
                       FillMapping(@, pipe.translation_cache,
                                   pipe.unique_texts),
                   !.pc = "tp_page"]
    /\ UNCHANGED <<cl, log, disk, lru>>

RECURSIVE RenderBlocks(_, _, _, _)
\* a block is skipped when its translation is blank or equal to its text,
\* else it is covered and the translation inserted
RenderBlocks(document, p, blocks, mapping) ==
    IF blocks = <<>> THEN document
    ELSE LET text == Head(blocks).text
             translated == IF text \in DOMAIN mapping THEN mapping[text]
                           ELSE text
         IN
         RenderBlocks(
             IF Strip(translated) = <<>> \/ translated = text THEN document
             ELSE Replace(document, p, Head(blocks).frag, translated),
             p, Tail(blocks), mapping)

\* phase 3, one page
render_page ==
    /\ pipe.pc = "tp_page"
    /\ pipe' = IF pipe.page > Len(pipe.doc) THEN Save(pipe)
               ELSE [pipe EXCEPT
                        !.out = RenderBlocks(
                                    new_page(pipe.out, pipe.doc[pipe.page]),
                                    pipe.page,
                                    page_blocks(pipe.doc, pipe.page),
                                    pipe.translation_mapping),
                        !.page = @ + 1]
    /\ UNCHANGED <<cl, log, disk, lru>>

(***************************************************************************)
(* The pipelines: one run of one variant over one document, in a fresh     *)
(* process with no cache file.                                             *)
(***************************************************************************)
Variants ==
    {"direct_translate_pdf", "force_translate_pdf", "aggressive_translate_pdf",
     "robust_translate_pdf", "exact_layout_translate_pdf",
     "translate_pdf_with_images"}

VariantPc(variant) ==
    CASE variant = "direct_translate_pdf" -> "dt_enter"
      [] variant = "force_translate_pdf" -> "ft_enter"
      [] variant = "aggressive_translate_pdf" -> "at_enter"
      [] variant = "robust_translate_pdf" -> "rp_enter"
      [] variant = "exact_layout_translate_pdf" -> "el_enter"
      [] variant = "translate_pdf_with_images" -> "tp_enter"

\* source and target language of a run
LangPairs == {<<ES, EN>>, <<CA, EN>>, <<EN, EN>>, <<AUTO, AUTO>>}

StartRun(variant, doc, src, tgt) ==
    [IdlePipe EXCEPT !.variant = variant, !.doc = doc, !.src = src,
                     !.tgt = tgt, !.pc = VariantPc(variant)]

PipeCall ==
    /\ pipe.pc = "idle"
    /\ \E variant \in Variants, doc \in Docs, langs \in LangPairs :
        pipe' = StartRun(variant, doc, langs[1], langs[2])
    /\ UNCHANGED <<cl, log, disk, lru>>

InitPipe ==
    /\ cl = [w \in Workers |-> IdleClient]
    /\ log = <<>>
    /\ disk = EmptyDict
    /\ lru = EmptyDict
    /\ pipe = IdlePipe

NextPipe ==
    \/ PipeCall
    \/ direct_translate_pdf
    \/ direct_test_translation
    \/ direct_new_page
    \/ direct_span
    \/ force_translate_pdf
    \/ force_test_translation
    \/ force_new_page
    \/ force_span
    \/ force_render_page
    \/ aggressive_translate_pdf
    \/ aggressive_test_phrase
    \/ aggressive_test_result
    \/ aggressive_new_page
    \/ aggressive_span
    \/ aggressive_span_result
    \/ robust_translate_pdf
    \/ translate_blocks
    \/ translate_blocks_result
    \/ create_translated_pdf
    \/ exact_layout_translate_pdf
    \/ exact_span
    \/ exact_span_result
    \/ translate_pdf_with_images
    \/ \E w \in Workers : pool_take(w)
    \/ \E w \in Workers : batch_call(w)
    \/ \E w \in Workers : batch_result(w)
    \/ collect_results
    \/ save_updated_cache
    \/ add_cache_entries
    \/ render_page
    \/ \E w \in Workers : lru_lookup(w)
    \/ \E w \in Workers : translate_chunk(w)
    \/ \E w \in Workers : translation_service(w)
    \/ \E w \in Workers : try_chunk_translation(w)
    \/ \E w \in Workers : try_chunk_translation_mymemory(w)
    \/ \E w \in Workers : try_chunk_translation_join(w)
    \/ \E w \in Workers : lru_store(w)
    \/ robust_translate_text(1)
    \/ robust_translate_text_primary(1)
    \/ robust_translate_text_auto(1)
    \/ translate_text_with_fallbacks(1)
    \/ translate_text_with_fallbacks_attempt(1)
    \/ translate_text_with_fallbacks_emergency(1)
    \/ exact_translate_text(1)
    \/ exact_translate_text_attempt(1)

SpecPipe == InitPipe /\ [][NextPipe]_vars

(***************************************************************************)
(* pdf_processor.translate_chunks_parallel                                 *)
(***************************************************************************)
RECURSIVE LexLess(_, _)
\* a < b for two tuples of numbers, as Python compares tuples
LexLess(a, b) ==
    IF a = <<>> THEN b # <<>>
    ELSE IF b = <<>> THEN FALSE
    ELSE IF a[1] # b[1] THEN a[1] < b[1]
    ELSE LexLess(Tail(a), Tail(b))

\* x put into the sorted list t behind every element whose key is not greater
InsertByKey(t, x) ==
    LET later == {i \in DOMAIN t : LexLess(x.key, t[i].key)}
        pos == IF later = {} THEN Len(t) + 1
               ELSE CHOOSE i \in later : \A j \in later : i <= j
    IN  SubSeq(t, 1, pos - 1) \o <<x>> \o SubSeq(t, pos, Len(t))

RECURSIVE SortByKey(_)
\* list.sort(key=...): a stable sort of records by their key
SortByKey(s) ==
    IF s = <<>> THEN <<>>
    ELSE InsertByKey(SortByKey(SubSeq(s, 1, Len(s) - 1)), s[Len(s)])

\* the list as it is, in the order the tasks completed
CompletionOrder(s) == s

\* results.sort(key=lambda x: x[0])
SortResults(results) == SortByKey(results)

\* "Fill in any missing chunks with original text" and sort again
FillMissing(results, chunks) ==
    LET missing == {i \in 1..Len(chunks) :
                       \A j \in DOMAIN results : results[j].key # <<i>>}
        RECURSIVE Fill(_, _)
        Fill(r, i) ==
            IF i > Len(chunks) THEN r
            ELSE Fill(IF i \in missing
                      THEN Append(r, [key |-> <<i>>, result |-> chunks[i]])
                      ELSE r,
                      i + 1)
    IN  IF Len(results) # Len(chunks)
        THEN SortResults(Fill(results, 1))
        ELSE results

translate_chunks_parallel ==
    /\ pipe.pc = "cp_enter"
    /\ pipe' = [pipe EXCEPT !.fsrc = format_language_code(pipe.src),
                            !.ftgt = format_language_code(pipe.tgt),
                            !.results = <<>>, !.calls = EmptyDict,
                            !.taken = 0, !.pc = "cp_pool"]
    /\ UNCHANGED <<cl, log, disk, lru>>

\* a free pool worker starts the next submitted task:
\* translate_chunk(chunk, formatted_source, formatted_target, None)
submit_chunk(w) ==
    /\ pipe.pc = "cp_pool"
    /\ pipe.task[w].batch = 0
    /\ pipe.taken < Len(pipe.chunks)
    /\ cl' = [cl EXCEPT ![w] = StartCall("translate_chunk",
                                         pipe.chunks[pipe.taken + 1],
                                         pipe.fsrc, pipe.ftgt, TRUE)]
    /\ pipe' = [pipe EXCEPT !.taken = @ + 1,
                            !.task[w] = [batch |-> pipe.taken + 1, pos |-> 1,
                                         results |-> <<>>]]
    /\ UNCHANGED <<log, disk, lru>>

\* as_completed hands over a task that is done: its index and its result, or
\* the chunk itself for a blank result, are added to the results.  calls
\* remembers, chunk by chunk, how the call went.
chunk_result(w) ==
    LET i == pipe.task[w].batch
        result == cl[w].ret
    IN
    /\ pipe.pc = "cp_pool"
    /\ i > 0
    /\ Returned(w)
    /\ pipe' = [Absorb(pipe, w) EXCEPT
                   !.results =
                       Append(@, [key |-> <<i>>,
                                  result |-> IF Truthy(result) /\ Strip(result) # <<>>
                                             THEN result ELSE pipe.chunks[i]]),
                   !.calls = Put(@, i, [text |-> pipe.chunks[i],
                                        ncalls |-> cl[w].ncalls,
                                        ret |-> result, hit |-> cl[w].hit]),
                   !.task[w] = [batch |-> 0, pos |-> 0, results |-> <<>>]]
    /\ UNCHANGED <<disk, lru>>

\* every task is done: the results are sorted by chunk index and returned
\* without the indexes.  completed keeps the order the tasks completed in.
translate_chunks_parallel_return ==
    LET results == FillMissing(SortResults(pipe.results), pipe.chunks) IN
    /\ pipe.pc = "cp_pool"
    /\ Len(pipe.results) = Len(pipe.chunks)
    /\ pipe' = [pipe EXCEPT
                   !.completed = [j \in DOMAIN pipe.results |-> pipe.results[j].key[1]],
                   !.results = [j \in DOMAIN results |-> results[j].result],
                   !.status = "ok", !.pc = "done"]
    /\ UNCHANGED <<cl, log, disk, lru>>

(***************************************************************************)
(* Runs that share the cache directory: a run of translate_chunks_parallel *)
(* or of translate_pdf_with_images is repeated with the same arguments,    *)
(* each time in a new process; between two runs the cache file is left as  *)
(* it is, removed, or holds a blank or an outdated entry for every text of *)
(* the run.  The service answers every request of a behaviour in the same  *)
(* way.                                                                    *)
(***************************************************************************)
MaxRuns == 2

CacheVariants == {"translate_chunks_parallel", "translate_pdf_with_images"}

CachePc(variant) ==
    IF variant = "translate_chunks_parallel" THEN "cp_enter" ELSE "tp_enter"

CacheDocs == {d \in Docs : Len(d) = 1}

ChunkLists ==
    {<< <<"a", "a", "a">> >>,
     << <<"a", "a", "a">>, <<"a", "a", "a">> >>,
     << <<"a", "a", "\n">>, <<"a", "a", "a">> >>}

\* the arguments of a run: a chunk list for translate_chunks_parallel, a
\* document for translate_pdf_with_images
RunInputs ==
    {[variant |-> "translate_chunks_parallel", doc |-> <<>>, chunks |-> c] :
        c \in ChunkLists}
    \cup {[variant |-> "translate_pdf_with_images", doc |-> d, chunks |-> <<>>] :
            d \in CacheDocs}

StartCacheRun(in, src, tgt, service) ==
    [IdlePipe EXCEPT !.variant = in.variant, !.doc = in.doc,
                     !.chunks = in.chunks, !.src = src, !.tgt = tgt,
                     !.service = service, !.pc = CachePc(in.variant)]

\* what a run hands back: the translated chunks, or the output document
Output(p) == [results |-> p.results, out |-> p.out]

\* the cache file the run's translate_chunk calls read and write
RunPath(p) ==
    get_cache_path(format_language_code(p.src), format_language_code(p.tgt))

\* the cache keys of the run's texts
RunHashes(p) ==
    {TextHash(p.chunks[i]) : i \in 1..Len(p.chunks)}
        \cup {TextHash(t) : t \in all_text_blocks(p.doc)}

StaleText == <<"o", "l", "d">>
SeedKinds == {"keep", "clear", "blank", "stale"}

Seeded(files, kind, path, hashes) ==
    CASE kind = "keep" -> files
      [] kind = "clear" -> EmptyDict
      [] kind = "blank" -> Put(files, path, [h \in hashes |-> <<" ">>])
      [] kind = "stale" -> Put(files, path, [h \in hashes |-> StaleText])

CacheCall ==
    /\ pipe.pc = "idle"
    /\ \E in \in RunInputs, service \in Outcomes :
        pipe' = StartCacheRun(in, ES, EN, service)
    /\ UNCHANGED <<cl, log, disk, lru>>

\* the next run: a new process (nothing in lru_cache) with the same
\* arguments; stored is the cache directory as the run before left it
run_again ==
    /\ pipe.pc = "done"
    /\ pipe.run < MaxRuns
    /\ \E kind \in SeedKinds :
        /\ disk' = Seeded(disk, kind, RunPath(pipe), RunHashes(pipe))
        /\ pipe' = [StartCacheRun(
                        [variant |-> pipe.variant, doc |-> pipe.doc,
                         chunks |-> pipe.chunks],
                        pipe.src, pipe.tgt, pipe.service) EXCEPT
                       !.run = pipe.run + 1, !.seed = kind,
                       !.stored = disk,
                       !.prev = Append(pipe.prev, Output(pipe))]
    /\ lru' = EmptyDict
    /\ UNCHANGED <<cl, log>>

InitCache ==
    /\ cl = [w \in Workers |-> IdleClient]
    /\ log = <<>>
    /\ disk = EmptyDict
    /\ lru = EmptyDict
    /\ pipe = IdlePipe

NextCache ==
    \/ CacheCall
    \/ run_again
    \/ translate_chunks_parallel
    \/ \E w \in Workers : submit_chunk(w)
    \/ \E w \in Workers : chunk_result(w)
    \/ translate_chunks_parallel_return
    \/ translate_pdf_with_images
    \/ \E w \in Workers : pool_take(w)
    \/ \E w \in Workers : batch_call(w)
    \/ \E w \in Workers : batch_result(w)
    \/ collect_results
    \/ save_updated_cache
    \/ add_cache_entries
    \/ render_page
    \/ \E w \in Workers : lru_lookup(w)
    \/ \E w \in Workers : translate_chunk(w)
    \/ \E w \in Workers : translation_service(w)
    \/ \E w \in Workers : try_chunk_translation(w)
    \/ \E w \in Workers : try_chunk_translation_mymemory(w)
    \/ \E w \in Workers : try_chunk_translation_join(w)
    \/ \E w \in Workers : lru_store(w)

SpecCache == InitCache /\ [][NextCache]_vars

(***************************************************************************)
(* Claims about the pipelines.                                             *)
(***************************************************************************)
RunDone == pipe.pc = "done"

\* the text of a document, page by page and fragment by fragment, without
\* leading and trailing white space
TextOf(document) ==
    [p \in 1..Len(document) |->
        [f \in 1..Len(document[p].frags) |-> Strip(document[p].frags[f])]]

RebuildVariants ==
    {"translate_pdf_with_images", "robust_translate_pdf", "force_translate_pdf",
     "aggressive_translate_pdf", "direct_translate_pdf"}

C2_OutageFallsBack ==
    (RunDone /\ pipe.sent # {} /\ pipe.outage)
        => /\ pipe.status = "ok"
           /\ TextOf(pipe.out) = TextOf(pipe.doc)

\* C6: when source and target language are equal, a run sends no request
\* and the text of its output is the text of its input.
C6_SameLanguageNoOp ==
    (RunDone /\ pipe.src = pipe.tgt)
        => /\ pipe.sent = {}
           /\ pipe.status = "ok" => TextOf(pipe.out) = TextOf(pipe.doc)

\* the minimum length of a fragment that is translated
MinLength(variant) == IF variant = "force_translate_pdf" THEN 3 ELSE 2

\* C8: a fragment shorter than the minimum length is never sent to a
\* translation service, and the output shows it as the input does.
C8_ShortFragmentsSkipped ==
    \A p \in 1..Len(pipe.doc) :
        \A f \in 1..Len(pipe.doc[p].frags) :
            LET text == pipe.doc[p].frags[f] IN
            Len(Strip(text)) < MinLength(pipe.variant)
                => /\ text \notin pipe.sent
                   /\ Strip(text) \notin pipe.sent
                   /\ (RunDone /\ pipe.status = "ok")
                          => pipe.out[p].frags[f] = text

(***************************************************************************)
(* Claims about the cache.                                                 *)
(***************************************************************************)
\* C5: of two translate_chunk calls of one run with the same arguments, at
\* most one sends requests to a translation service, and both return the
\* same text.
C5_OneCallSequence ==
    \A i, j \in DOMAIN pipe.calls :
        (i # j /\ pipe.calls[i].text = pipe.calls[j].text)
            => /\ pipe.calls[i].ncalls = 0 \/ pipe.calls[j].ncalls = 0
               /\ pipe.calls[i].ret = pipe.calls[j].ret

\* C9: with a service that answers every request in the same way, a run
\* hands back what the first run, started without a cache file, handed
\* back, whatever the cache file holds when the run starts.
C9_CacheTransparent ==
    (RunDone /\ pipe.run > 1 /\ pipe.service # "any")
        => Output(pipe) = pipe.prev[1]

\* the next run of translate_pdf_with_images has passed the start of the
\* function, the run before left entries in the cache file of the pair, and
\* nothing touched the file between the runs
NextRunStarted ==
    /\ pipe.variant = "translate_pdf_with_images"
    /\ pipe.run > 1
    /\ pipe.pc \notin {"idle", "tp_enter"}
    /\ pipe.seed = "keep"
    /\ RunPath(pipe) \in DOMAIN pipe.stored
    /\ pipe.stored[RunPath(pipe)] # EmptyDict

\* the texts handed to the translation tasks of the run
Submitted ==
    UNION {{pipe.batches[b][i] : i \in 1..Len(pipe.batches[b])} :
              b \in 1..Len(pipe.batches)}

NoText(document) == \A p \in 1..Len(document) : document[p].frags = <<>>

\* C11: a run of translate_pdf_with_images or of the robust translate_pdf
\* over a document without any text fragment returns success and writes an
\* output with as many pages as the input.
C11_NoTextStillSucceeds ==
    (RunDone /\ NoText(pipe.doc)
             /\ pipe.variant \in {"translate_pdf_with_images", "robust_translate_pdf"})
        => /\ pipe.status = "ok"
           /\ Len(pipe.out) = Len(pipe.doc)

\* C12: the input file of a run exists and its final save succeeds, so no
\* error that happens in a run of translate_pdf_with_images,
\* force_translate_pdf or direct_translate_pdf (a raising request included)
\* makes the run fail: once a request was sent the run ends with success
\* and an output document holding every page.
C12_OtherErrorsAbsorbed ==
    (RunDone /\ pipe.sent # {}
             /\ pipe.variant \in {"translate_pdf_with_images",
                                  "force_translate_pdf", "direct_translate_pdf"})
        => /\ pipe.status = "ok"
           /\ Len(pipe.out) = Len(pipe.doc)

(***************************************************************************)
(* pdf_processor.py run as a script: one subcommand is carried out and the *)
(* process exits.  pipe holds the state of the process; the outcome of     *)
(* every file, library and console operation is chosen by the environment. *)
(* handler tells that the outermost except clause of the operation ran.    *)
(***************************************************************************)
MaxBatches == 2

Commands ==
    {"extract", "ocr", "check_ocr", "detect_language", "translate",
     "create_pdf", "create_dual_pdf", "translate_pdf", "none"}

\* the operations of the form  try: ...; return True / except: return False
TryCommands == {"extract", "ocr", "create_pdf", "create_dual_pdf", "translate_pdf"}

IdleMain ==
    [pc |-> "main", service |-> "any", command |-> "none", same |-> FALSE,
     batches |-> 0, batch |-> 0, translated_chunks |-> 0, size |-> "none",
     absorbed |-> {}, handler |-> FALSE, ret |-> "none", exit |-> -1]

Returns(p, v) == [p EXCEPT !.ret = v, !.pc = "exit"]
Handled(p, v) == [p EXCEPT !.ret = v, !.handler = TRUE, !.pc = "exit"]

\* the dispatch on args.command
main ==
    /\ pipe.pc = "main"
    /\ pipe' = CASE pipe.command \in TryCommands -> [pipe EXCEPT !.pc = "try_body"]
                 [] pipe.command = "check_ocr" -> [pipe EXCEPT !.pc = "no_enter"]
                 [] pipe.command = "detect_language" -> [pipe EXCEPT !.pc = "dl_enter"]
                 [] pipe.command = "translate" -> [pipe EXCEPT !.pc = "tt_enter"]
                 [] OTHER -> [pipe EXCEPT !.exit = 1, !.pc = "exited"]
    /\ UNCHANGED <<cl, log, disk, lru>>

\* extract_text, extract_text_with_ocr, create_pdf, create_dual_language_pdf
\* and translate_pdf_with_images: True at the end of the try body, False
\* from the except clause
try_body ==
    \E raised \in BOOLEAN :
        /\ pipe.pc = "try_body"
        /\ pipe' = IF raised THEN Handled(pipe, "false") ELSE Returns(pipe, "true")
        /\ UNCHANGED <<cl, log, disk, lru>>

\* needs_ocr, the two extraction methods: an error of either is printed and
\* the text of that method stays empty
needs_ocr ==
    \E pypdf \in {"raise", "ok"}, fitz \in {"raise", "ok"},
       size \in {"lt50", "lt200", "eq200", "gt200"} :
        /\ pipe.pc = "no_enter"
        /\ (pypdf = "raise" /\ fitz = "raise") => size = "lt50"
        /\ pipe' = [pipe EXCEPT
                       !.absorbed = {m \in {"PyPDF2", "PyMuPDF"} :
                                        \/ m = "PyPDF2" /\ pypdf = "raise"
                                        \/ m = "PyMuPDF" /\ fitz = "raise"},
                       !.size = size, !.pc = "no_decide"]
        /\ UNCHANGED <<cl, log, disk, lru>>

\* needs_ocr, the decision on the amount of text; an error outside the
\* inner try blocks reaches the outer except clause, which answers True
needs_ocr_decide ==
    \E raised \in BOOLEAN :
        /\ pipe.pc = "no_decide"
        /\ pipe' = IF raised THEN Handled(pipe, "true")
                   ELSE IF pipe.size = "gt200" THEN Returns(pipe, "false")
                   ELSE [pipe EXCEPT !.pc = "no_sample"]
        /\ UNCHANGED <<cl, log, disk, lru>>

\* needs_ocr, the OCR sample of the first page and the default decision
needs_ocr_sample ==
    \E sample \in {"raise", "noimages", "le100", "gt100"} :
        /\ pipe.pc = "no_sample"
        /\ pipe' = [(IF sample = "gt100" /\ pipe.size = "lt50"
                     THEN Returns(pipe, "true")
                     ELSE Returns(pipe, IF pipe.size \in {"lt50", "lt200"}
                                        THEN "true" ELSE "false"))
                    EXCEPT !.absorbed = IF sample = "raise"
                                        THEN @ \cup {"OCR sample"} ELSE @]
        /\ UNCHANGED <<cl, log, disk, lru>>

\* detect_language up to the temporary directory: a language named in the
\* file name is returned; an error here reaches the outermost except clause
detect_language ==
    \E hint \in {"none", "es"}, raised \in BOOLEAN :
        /\ pipe.pc = "dl_enter"
        /\ pipe' = IF hint # "none" THEN Returns(pipe, hint)
                   ELSE IF raised THEN Handled(pipe, "auto")
                   ELSE [pipe EXCEPT !.pc = "dl_extract"]
        /\ UNCHANGED <<cl, log, disk, lru>>

\* detect_language, the two extractions: an error of either is printed; no
\* text at all gives 'auto'
detect_language_extract ==
    \E direct \in {"raise", "empty", "text"}, ocr \in {"raise", "empty", "text"} :
        /\ pipe.pc = "dl_extract"
        /\ pipe' = [(IF direct # "text" /\ ocr # "text"
                     THEN Returns(pipe, "auto")
                     ELSE [pipe EXCEPT !.pc = "dl_detect"])
                    EXCEPT !.absorbed =
                               {m \in {"direct", "OCR"} :
                                   \/ m = "direct" /\ direct = "raise"
                                   \/ m = "OCR" /\ ocr = "raise"}]
        /\ UNCHANGED <<cl, log, disk, lru>>

\* detect_language, the detection: Catalan is reported as Spanish, a failed
\* detection as 'auto'
detect_language_detect ==
    \E lang \in {"es", "ca", "en", "raise"} :
        /\ pipe.pc = "dl_detect"
        /\ pipe' = CASE lang = "ca" -> Returns(pipe, "es")
                     [] lang = "raise" ->
                            [Returns(pipe, "auto") EXCEPT
                                !.absorbed = @ \cup {"detection"}]
                     [] OTHER -> Returns(pipe, lang)
        /\ UNCHANGED <<cl, log, disk, lru>>

\* translate_text up to the batches: the input is read; equal languages
\* copy the text to the output
translate_text ==
    \E raised \in BOOLEAN :
        /\ pipe.pc = "tt_enter"
        /\ pipe' = IF raised THEN [pipe EXCEPT !.handler = TRUE, !.pc = "tt_except"]
                   ELSE IF pipe.same THEN Returns(pipe, "true")
                   ELSE [pipe EXCEPT !.batch = 0, !.pc = "tt_batch"]
        /\ UNCHANGED <<cl, log, disk, lru>>

\* translate_text, one batch: translate_chunks_parallel returns a result for
\* every chunk of the batch, the results are added to translated_chunks and
\* the text so far is written to the output; after the last batch the whole
\* text is written
translate_text_batch ==
    \E raised \in BOOLEAN :
        /\ pipe.pc = "tt_batch"
        /\ pipe' = IF pipe.batch < pipe.batches
                   THEN IF raised
                        THEN [pipe EXCEPT !.translated_chunks = @ + 1,
                                          !.handler = TRUE, !.pc = "tt_except"]
                        ELSE [pipe EXCEPT !.translated_chunks = @ + 1,
                                          !.batch = @ + 1]
                   ELSE IF raised
                        THEN [pipe EXCEPT !.handler = TRUE, !.pc = "tt_except"]
                        ELSE Returns(pipe, "true")
        /\ UNCHANGED <<cl, log, disk, lru>>

\* translate_text, the except clause: what was translated so far is saved
\* and the call returns True; nothing translated, or a failing save, False
translate_text_except ==
    \E raised \in BOOLEAN :
        /\ pipe.pc = "tt_except"
        /\ pipe' = IF pipe.translated_chunks > 0 /\ ~raised
                   THEN Returns(pipe, "true")
                   ELSE Returns(pipe, "false")
        /\ UNCHANGED <<cl, log, disk, lru>>

\* sys.exit: check_ocr and detect_language print their answer and exit with
\* 0, the other subcommands exit with 0 if success else 1
main_exit ==
    /\ pipe.pc = "exit"
    /\ pipe' = [pipe EXCEPT
                   !.exit = IF pipe.command \in {"check_ocr", "detect_language"}
                            THEN 0
                            ELSE IF pipe.ret = "true" THEN 0 ELSE 1,
                   !.pc = "exited"]
    /\ UNCHANGED <<cl, log, disk, lru>>

InitMain ==
    /\ cl = [w \in Workers |-> IdleClient]
    /\ log = <<>>
    /\ disk = EmptyDict
    /\ lru = EmptyDict
    /\ pipe \in {[IdleMain EXCEPT !.command = c] : c \in Commands}
                 \cup {[IdleMain EXCEPT !.command = "translate", !.same = s,
                                        !.batches = n] :
                           s \in BOOLEAN, n \in 0..MaxBatches}

NextMain ==
    \/ main
    \/ try_body
    \/ needs_ocr
    \/ needs_ocr_decide
    \/ needs_ocr_sample
    \/ detect_language
    \/ detect_language_extract
    \/ detect_language_detect
    \/ translate_text
    \/ translate_text_batch
    \/ translate_text_except
    \/ main_exit

SpecMain == InitMain /\ [][NextMain]_vars

\* C13: a subcommand exits with 0 when its operation ran to its end and
\* with 1 when the operation's except clause caught an error.
C13_ExitCodeTellsSuccess ==
    (pipe.pc = "exited" /\ pipe.command # "none")
        => (pipe.exit = 0 <=> ~pipe.handler)

(***************************************************************************)
(* format_language_code called on its own with one argument.               *)
(***************************************************************************)
MaxCode == 4

CodeChars == {"e", "1", " "}

\* str.capitalize() of a lower-case text
Capitalize(t) == IF t = <<>> THEN t ELSE <<UpperChar(t[1])>> \o Tail(t)

\* codes with a region
RegionCodes ==
    {<<"c", "a", "-", "E", "S">>, <<"i", "w", "-", "I", "L">>,
     <<"z", "h", "-", "h", "k">>, <<"e", "n", "-", "u", "s">>}

\* the arguments: None, a value that is no str, every text over CodeChars up
\* to MaxCode characters, codes with a region, and every key of language_map
\* in lower case, in upper case and capitalized
CodeInputs ==
    {NoneV, NonStr}
        \cup UNION {[1..n -> CodeChars] : n \in 0..MaxCode}
        \cup RegionCodes
        \cup DOMAIN language_map
        \cup {Upper(k) : k \in DOMAIN language_map}
        \cup {Capitalize(k) : k \in DOMAIN language_map}

IdleCode ==
    [pc |-> "flc_enter", service |-> "any", code |-> NoneV, ret |-> NotYet,
     again |-> NotYet]

format_code ==
    /\ pipe.pc = "flc_enter"
    /\ pipe' = [pipe EXCEPT !.ret = format_language_code(pipe.code), !.pc = "done"]
    /\ UNCHANGED <<cl, log, disk, lru>>

InitCode ==
    /\ cl = [w \in Workers |-> IdleClient]
    /\ log = <<>>
    /\ disk = EmptyDict
    /\ lru = EmptyDict
    /\ pipe \in {[IdleCode EXCEPT !.code = c] : c \in CodeInputs}

\* the callee formats the code it was given once more, as
\* translate_chunks_parallel and translate_chunk do
format_code_again ==
    /\ pipe.pc = "done"
    /\ pipe' = [pipe EXCEPT !.again = format_language_code(pipe.ret),
                            !.pc = "formatted"]
    /\ UNCHANGED <<cl, log, disk, lru>>

NextCode ==
    \/ format_code
    \/ format_code_again

SpecCode == InitCode /\ [][NextCode]_vars

\* the text holds two letters in a row, which may be a language code
HasLetterPair(t) ==
    \E i \in 1..(Len(t) - 1) :
        /\ IsLowerLetter(LowerChar(t[i]))
        /\ IsLowerLetter(LowerChar(t[i + 1]))

\* C14: format_language_code maps a key of language_map, in any letter
\* case, to the key's identifier, and maps an argument that is no str, or
\* that is no key of language_map and holds no two letters in a row, to
\* 'auto'.
C14_UnrecognizedGivesAuto ==
    pipe.pc = "done" =>
        LET code == pipe.code IN
        /\ (IsStr(code) /\ Lower(code) \in DOMAIN language_map)
               => pipe.ret = language_map[Lower(code)]
        /\ (~IsStr(code) \/ (Lower(code) \notin DOMAIN language_map
                                /\ ~HasLetterPair(code)))
               => pipe.ret = AUTO

(***************************************************************************)
(* Claims about retries and strategies.                                    *)
(***************************************************************************)
\* the requests of worker w that repeat its first request: the same
\* service, source, target and text
PrimaryRequests(w) ==
    LET mine == SelectSeq(log, LAMBDA r : r.w = w)
    IN  {i \in DOMAIN mine : mine[i] = mine[1]}

\* C15: in one call of translate_text_with_fallbacks, of the exact-layout
\* translate_text or of translate_text_directly, the primary service is
\* asked at most 3 times with the same source and target.
C15_PrimaryAtMostThree ==
    \A w \in Workers :
        cl[w].fn \in {"translate_text_with_fallbacks", "exact_translate_text",
                      "translate_text_directly"}
            => Cardinality(PrimaryRequests(w)) <= 3

\* the requests worker w has issued, in the order it issued them
RequestsOf(w) == SelectSeq(log, LAMBDA r : r.w = w)

\* C16: in a call of translate_chunk the first four requests go to Google
\* with the given source, Google with 'auto', MyMemory with the given
\* source and MyMemory with 'auto', in that order, and the requests of the
\* sentence strategy follow them; a strategy is only invoked when every
\* request before it raised or answered blank or unchanged text; the call
\* returns the answer of the first strategy that answered non-blank text
\* different from the request, and no strategy is invoked after that one.
C16_StrategiesInOrder ==
    \A w \in Workers :
        LET c == cl[w]
            mine == RequestsOf(w)
            n == Len(mine)
            joined == JoinWith(<<" ">>, c.results)
        IN
        c.fn = "translate_chunk" =>
            /\ \A i \in 1..n :
                   /\ mine[i].tgt = c.ftgt
                   /\ i = 1 => (mine[i].svc = "google" /\ mine[i].src = c.fsrc)
                   /\ i = 2 => (mine[i].svc = "google" /\ mine[i].src = AUTO)
                   /\ i = 3 => (mine[i].svc = "mymemory" /\ mine[i].src = c.fsrc)
                   /\ i = 4 => (mine[i].svc = "mymemory" /\ mine[i].src = AUTO)
                   /\ i <= 4 => mine[i].text = c.cleaned
                   /\ i > 4 => /\ mine[i].src = c.fsrc
                               /\ \E s \in DOMAIN SplitSentences(c.cleaned) :
                                      mine[i].text = SplitSentences(c.cleaned)[s]
            /\ (c.pc = "tc_service" \/ (c.pc = "tc_sentence" /\ n = 4))
                   => (c.allFailed /\ c.strat = n + 1)
            /\ (c.pc \in {"tc_store", "done"} /\ n \in 1..4)
                   => /\ ~c.allFailed
                      /\ c.strat = n
                      /\ c.ret \in {Value(o, c.cleaned) : o \in Outcomes \ {"raise"}}
                      /\ Truthy(c.ret) /\ Strip(c.ret) # <<>> /\ c.ret # c.cleaned
            /\ (c.pc \in {"tc_store", "done"} /\ c.strat = 5)
                   => /\ n >= 4
                      /\ c.ret = IF /\ \A i \in DOMAIN c.results : c.results[i] # NoneV
                                    /\ Truthy(joined) /\ Strip(joined) # <<>>
                                    /\ joined # c.cleaned
                                 THEN joined ELSE c.cleaned

\* MyMemory with the given source answered after both Google requests failed
C16_Witness ==
    /\ cl[1].fn = "translate_chunk"
    /\ cl[1].pc = "done"
    /\ Len(RequestsOf(1)) = 3
    /\ cl[1].strat = 3
    /\ cl[1].ret = <<"x">> \o cl[1].cleaned

(***************************************************************************)
(* The two thread pools on their own: translate_chunks_parallel over a     *)
(* list of chunks and robust_pdf_translator.translate_blocks over the      *)
(* blocks of a document.  A pool task that is running is any task that was *)
(* submitted and has not completed, so the tasks of a batch complete in    *)
(* any order.  The service answers every request of a run in the same way. *)
(***************************************************************************)
\* batch_size of translate_blocks
batch_size == 5

\* the blocks of the batch that starts behind block k
BatchOf(p) ==
    {i \in 1..Len(p.blocks) : p.k < i /\ i <= p.k + batch_size}

\* translate_blocks: the batches are cut and the pool is opened
translate_blocks_pool ==
    /\ pipe.pc = "tb_enter"
    /\ pipe' = [pipe EXCEPT !.translations = <<>>, !.collected = {},
                            !.calls = EmptyDict, !.k = 0, !.pc = "tb_pool"]
    /\ UNCHANGED <<cl, log, disk, lru>>

\* executor.submit(translate_text, block["text"], source_lang, target_lang)
\* for a block of the current batch, run by pool thread w
translate_blocks_submit(w) ==
    /\ pipe.pc = "tb_pool"
    /\ pipe.task[w].batch = 0
    /\ \E i \in BatchOf(pipe) \ pipe.collected :
        /\ CallClient(w, "robust_translate_text", pipe.blocks[i].text,
                      pipe.src, pipe.tgt)
        /\ pipe' = [pipe EXCEPT !.collected = @ \cup {i},
                                !.task[w] = [batch |-> i, pos |-> 1,
                                             results |-> <<>>]]
    /\ UNCHANGED <<log, disk, lru>>

\* as_completed hands over a task that is done: a copy of its block with
\* the translated text is added to translated_blocks; after the last task
\* of the batch the next batch is submitted
translate_blocks_completed(w) ==
    LET i == pipe.task[w].batch
        block == pipe.blocks[i]
        translations ==
            Append(pipe.translations,
                   [key |-> <<block.page, block.frag>>, page |-> block.page,
                    frag |-> block.frag, text |-> block.text,
                    translated |-> cl[w].ret])
    IN
    /\ pipe.pc = "tb_pool"
    /\ i > 0
    /\ Returned(w)
    /\ pipe' = [Absorb(pipe, w) EXCEPT
                   !.translations = translations,
                   !.calls = Put(@, i, [text |-> block.text, ret |-> cl[w].ret]),
                   !.task[w] = [batch |-> 0, pos |-> 0, results |-> <<>>],
                   !.k = IF Len(translations) = pipe.k + Cardinality(BatchOf(pipe))
                         THEN pipe.k + batch_size ELSE pipe.k]
    /\ UNCHANGED <<disk, lru>>

\* translated_blocks.sort(key=lambda b: (b["page"], b["rect"][1], b["rect"][0]))
SortBlocks(translated_blocks) == SortByKey(translated_blocks)

\* every batch is done: the blocks are sorted by page and position and
\* returned.  completed keeps the order the tasks completed in.
translate_blocks_return ==
    /\ pipe.pc = "tb_pool"
    /\ pipe.k >= Len(pipe.blocks)
    /\ pipe' = [pipe EXCEPT
                   !.completed = [j \in DOMAIN pipe.translations |->
                                     pipe.translations[j].key],
                   !.translations = SortBlocks(pipe.translations),
                   !.status = "ok", !.pc = "done"]
    /\ UNCHANGED <<cl, log, disk, lru>>

PoolDocs ==
    {<<[dim |-> "A4", frags |-> <<<<"a", "a">>, <<"a", ".">> >>]>>,
     <<[dim |-> "A4", frags |-> <<<<"a", "a">>, <<"a", ".">>, <<"a", "a", "a">> >>],
       [dim |-> "Letter", frags |-> <<<<"a", "a">>, <<".", "a">>, <<"a", ".", "a">> >>]>>}

PoolCall ==
    /\ pipe.pc = "idle"
    /\ \E service \in Outcomes :
        \/ \E chunks \in ChunkLists :
            pipe' = [IdlePipe EXCEPT !.variant = "translate_chunks_parallel",
                                     !.chunks = chunks, !.src = ES, !.tgt = EN,
                                     !.service = service, !.pc = "cp_enter"]
        \/ \E doc \in PoolDocs :
            pipe' = [IdlePipe EXCEPT !.variant = "translate_blocks",
                                     !.doc = doc,
                                     !.blocks = extract_text_blocks(doc),
                                     !.src = ES, !.tgt = EN,
                                     !.service = service, !.pc = "tb_enter"]
    /\ UNCHANGED <<cl, log, disk, lru>>

InitPool ==
    /\ cl = [w \in Workers |-> IdleClient]
    /\ log = <<>>
    /\ disk = EmptyDict
    /\ lru = EmptyDict
    /\ pipe = IdlePipe

NextPool ==
    \/ PoolCall
    \/ translate_chunks_parallel
    \/ \E w \in Workers : submit_chunk(w)
    \/ \E w \in Workers : chunk_result(w)
    \/ translate_chunks_parallel_return
    \/ translate_blocks_pool
    \/ \E w \in Workers : translate_blocks_submit(w)
    \/ \E w \in Workers : translate_blocks_completed(w)
    \/ translate_blocks_return
    \/ \E w \in Workers : lru_lookup(w)
    \/ \E w \in Workers : translate_chunk(w)
    \/ \E w \in Workers : translation_service(w)
    \/ \E w \in Workers : try_chunk_translation(w)
    \/ \E w \in Workers : try_chunk_translation_mymemory(w)
    \/ \E w \in Workers : try_chunk_translation_join(w)
    \/ \E w \in Workers : lru_store(w)
    \/ \E w \in Workers : robust_translate_text(w)
    \/ \E w \in Workers : robust_translate_text_primary(w)
    \/ \E w \in Workers : robust_translate_text_auto(w)

SpecPool == InitPool /\ [][NextPool]_vars

(***************************************************************************)
(* Claims about the thread pools.                                          *)
(***************************************************************************)
\* what translate_chunks_parallel keeps of a task's result
KeptResult(result, chunk) ==
    IF Truthy(result) /\ Strip(result) # <<>> THEN result ELSE chunk

C18_NoCacheEntryLost ==
    (RunDone /\ pipe.variant = "translate_chunks_parallel")
        => \A i \in 1..Len(pipe.chunks) :
               (pipe.calls[i].ncalls > 0
                    /\ pipe.calls[i].ret # Strip(pipe.chunks[i]))
                   => LET cache == load_translation_cache(disk, pipe.fsrc, pipe.ftgt)
                      IN  /\ TextHash(pipe.chunks[i]) \in DOMAIN cache
                          /\ cache[TextHash(pipe.chunks[i])] = pipe.calls[i].ret

\* C19: a call of translate_chunk, translate_text_with_fallbacks or
\* translate_text_directly that sent requests returns either its input
\* (as given or stripped) or a non-blank text that differs from the input
\* in more than letter case, and translate_chunk stores no other text in
\* the cache.
C19_CaseOnlyChangeRejected ==
    \A w \in Workers :
        LET c == cl[w]
            accepted(v) == /\ Truthy(v)
                           /\ Strip(v) # <<>>
                           /\ Lower(v) # Lower(Strip(c.text))
        IN
        (Finished(w) /\ c.ncalls > 0
                     /\ c.fn \in {"translate_chunk", "translate_text_with_fallbacks",
                                  "translate_text_directly"})
            => /\ c.ret \notin {c.text, Strip(c.text)} => accepted(c.ret)
               /\ c.fn = "translate_chunk"
                      => LET cache == load_translation_cache(disk, c.src, c.tgt)
                         IN  TextHash(c.text) \in DOMAIN cache
                                 => accepted(cache[TextHash(c.text)])

(***************************************************************************)
(* The functions that cut a text into requests, each called on its own     *)
(* with a text around its size threshold:                                  *)
(* simple_pdf_translator.translate_text, attempt_translation of            *)
(* guaranteed_translate.translate_text_directly, try_mymemory_translation  *)
(* and translate_chunk.  pipe holds the state of the call, log the         *)
(* requests.                                                               *)
(***************************************************************************)
MaxOver == 1

\* max_chunk_size of simple_pdf_translator.translate_text
max_chunk_size == 4000
\* attempt_translation cuts texts longer than this, into chunks below it
AttemptLimit == 1000
\* try_mymemory_translation cuts texts longer than MyMemoryLimit into
\* slices of MyMemorySlice characters
MyMemoryLimit == 4900
MyMemorySlice == 4000

\* the exception a call ended with
Raised == <<"Raised">>

Rep(c, n) == [i \in 1..n |-> c]

\* the parts of t between the characters at the positions in cuts
SplitAtCuts(t, cuts) ==
    LET cut(k) == IF k = 0 THEN 0
                  ELSE IF k > Cardinality(cuts) THEN Len(t) + 1
                  ELSE CHOOSE i \in cuts : Cardinality({j \in cuts : j < i}) = k - 1
    IN  [k \in 1..(Cardinality(cuts) + 1) |->
            SubSeq(t, cut(k - 1) + 1, cut(k) - 1)]

RECURSIVE ParagraphCuts(_, _)
\* the first characters of the occurrences of '\n\n' that str.split finds
\* from position i on
ParagraphCuts(t, i) ==
    LET S == {j \in i..(Len(t) - 1) : t[j] = "\n" /\ t[j + 1] = "\n"}
        first == CHOOSE j \in S : \A k \in S : j <= k
    IN  IF S = {} THEN {} ELSE {first} \cup ParagraphCuts(t, first + 2)

\* text.split('\n\n')
Paragraphs(t) ==
    LET starts == ParagraphCuts(t, 1)
        joined == SplitAtCuts(t, starts)
    IN  [k \in DOMAIN joined |->
            IF k = 1 THEN joined[k] ELSE Tail(joined[k])]

RECURSIVE SimpleChunks(_, _)
\* the loop over the paragraphs: the chunks, the last one being current_chunk
SimpleChunks(paragraphs, current_chunk) ==
    IF paragraphs = <<>>
    THEN IF current_chunk # <<>> THEN <<current_chunk>> ELSE <<>>
    ELSE LET paragraph == Head(paragraphs) IN
         IF Len(current_chunk) + Len(paragraph) > max_chunk_size
         THEN (IF current_chunk # <<>> THEN <<current_chunk>> ELSE <<>>)
                  \o SimpleChunks(Tail(paragraphs), paragraph)
         ELSE SimpleChunks(Tail(paragraphs),
                           IF current_chunk # <<>>
                           THEN current_chunk \o <<"\n", "\n">> \o paragraph
                           ELSE paragraph)

\* text.replace('. ', '.|').replace('! ', '!|').replace('? ', '?|').split('|')
AttemptSentences(t) ==
    SplitAtCuts(t, {i \in 1..Len(t) :
                       \/ t[i] = "|"
                       \/ i > 1 /\ t[i] = " " /\ t[i - 1] \in Punct})

\* sentence + (' ' if not sentence.endswith(('.', '!', '?')) else '')
Spaced(sentence) ==
    IF sentence # <<>> /\ sentence[Len(sentence)] \in Punct
    THEN sentence ELSE sentence \o <<" ">>

RECURSIVE AttemptChunks(_, _)
\* the loop over the sentences: the chunks, the last one being current_chunk
AttemptChunks(sentences, current_chunk) ==
    IF sentences = <<>>
    THEN IF current_chunk # <<>> THEN <<current_chunk>> ELSE <<>>
    ELSE LET sentence == Head(sentences) IN
         IF Len(current_chunk) + Len(sentence) < AttemptLimit
         THEN AttemptChunks(Tail(sentences), current_chunk \o Spaced(sentence))
         ELSE (IF current_chunk # <<>> THEN <<current_chunk>> ELSE <<>>)
                  \o AttemptChunks(Tail(sentences), Spaced(sentence))

\* [text[i:i+4000] for i in range(0, len(text), 4000)]
MyMemorySlices(t) ==
    [k \in 1..((Len(t) + MyMemorySlice - 1) \div MyMemorySlice) |->
        SubSeq(t, (k - 1) * MyMemorySlice + 1,
               IF k * MyMemorySlice < Len(t) THEN k * MyMemorySlice ELSE Len(t))]

\* sep.join(parts), which raises when a part is None
Joined(sep, parts) ==
    IF \E i \in DOMAIN parts : parts[i] = NoneV THEN Raised
    ELSE JoinWith(sep, parts)

IdleSize ==
    [pc |-> "idle", service |-> "any", fn |-> "none", text |-> <<>>,
     src |-> ES, tgt |-> EN, chunks |-> <<>>, results |-> <<>>,
     retry_count |-> 0, ret |-> NotYet]

\* simple_pdf_translator.translate_text up to the requests
simple_translate_text ==
    /\ pipe.pc = "st_enter"
    /\ pipe' = IF Strip(pipe.text) = <<>>
               THEN [pipe EXCEPT !.ret = <<>>, !.pc = "done"]
               ELSE IF pipe.src = pipe.tgt
               THEN [pipe EXCEPT !.ret = pipe.text, !.pc = "done"]
               ELSE [pipe EXCEPT !.chunks = SimpleChunks(Paragraphs(pipe.text), <<>>),
                                 !.results = <<>>, !.pc = "st_chunk"]
    /\ UNCHANGED <<cl, log, disk, lru>>

\* what follows the translation of the current chunk
SimpleNext(p, translated) ==
    LET translated_chunks == Append(p.results, translated) IN
    IF Len(p.chunks) > 1
    THEN [p EXCEPT !.results = translated_chunks, !.chunks = Tail(@),
                   !.pc = "st_chunk"]
    ELSE [p EXCEPT !.results = translated_chunks, !.chunks = <<>>,
                   !.ret = Joined(<<"\n", "\n">>, translated_chunks),
                   !.pc = "done"]

\* the next chunk goes to Google with the given source
simple_translate_text_chunk ==
    \E o \in ServiceOutcomes :
        LET chunk == Head(pipe.chunks) IN
        /\ pipe.pc = "st_chunk"
        /\ log' = Logged(log, Request(1, "google", pipe.src, pipe.tgt, chunk))
        /\ pipe' = IF o = "raise" THEN [pipe EXCEPT !.pc = "st_auto"]
                   ELSE SimpleNext(pipe, Value(o, chunk))
        /\ UNCHANGED <<cl, disk, lru>>

\* the request raised: the chunk goes to Google with 'auto'; if that raises
\* too the chunk is kept as it is
simple_translate_text_auto ==
    \E o \in ServiceOutcomes :
        LET chunk == Head(pipe.chunks) IN
        /\ pipe.pc = "st_auto"
        /\ log' = Logged(log, Request(1, "google", AUTO, pipe.tgt, chunk))
        /\ pipe' = SimpleNext(pipe, IF o = "raise" THEN chunk ELSE Value(o, chunk))
        /\ UNCHANGED <<cl, disk, lru>>

\* attempt_translation up to the requests: a text of more than AttemptLimit
\* characters is cut into chunks of sentences
attempt_translation_chunks ==
    /\ pipe.pc = "at_enter"
    /\ pipe' = [pipe EXCEPT
                   !.chunks = IF Len(pipe.text) > AttemptLimit
                              THEN AttemptChunks(AttemptSentences(pipe.text), <<>>)
                              ELSE <<pipe.text>>,
                   !.results = <<>>, !.pc = "at_chunk"]
    /\ UNCHANGED <<cl, log, disk, lru>>

\* the except clause of attempt_translation: the whole attempt is made
\* again, up to MaxRetries times, then None is returned
AttemptRaised(p) ==
    IF p.retry_count < MaxRetries
    THEN [p EXCEPT !.retry_count = @ + 1, !.pc = "at_enter"]
    ELSE [p EXCEPT !.ret = NoneV, !.pc = "done"]

\* the next chunk goes to Google; after the last one the translated chunks
\* are joined with a space
attempt_translation_chunk ==
    \E o \in ServiceOutcomes :
        LET chunk == Head(pipe.chunks)
            translated_chunks == Append(pipe.results, Value(o, chunk))
            ret == IF Len(pipe.text) > AttemptLimit
                   THEN Joined(<<" ">>, translated_chunks)
                   ELSE translated_chunks[1]
        IN
        /\ pipe.pc = "at_chunk"
        /\ log' = Logged(log, Request(1, "google", pipe.src, pipe.tgt, chunk))
        /\ pipe' = IF o = "raise" THEN AttemptRaised(pipe)
                   ELSE IF Len(pipe.chunks) > 1
                   THEN [pipe EXCEPT !.results = translated_chunks,
                                     !.chunks = Tail(@)]
                   ELSE IF ret = Raised THEN AttemptRaised(pipe)
                   ELSE [pipe EXCEPT !.results = translated_chunks,
                                     !.chunks = <<>>, !.ret = ret, !.pc = "done"]
        /\ UNCHANGED <<cl, disk, lru>>

\* try_mymemory_translation up to the requests
try_mymemory_translation ==
    /\ pipe.pc = "mm_enter"
    /\ pipe' = [pipe EXCEPT
                   !.chunks = IF Len(pipe.text) > MyMemoryLimit
                              THEN MyMemorySlices(pipe.text)
                              ELSE <<pipe.text>>,
                   !.results = <<>>, !.pc = "mm_chunk"]
    /\ UNCHANGED <<cl, log, disk, lru>>

\* the next slice goes to MyMemory; an exception leaves the function
try_mymemory_translation_chunk ==
    \E o \in ServiceOutcomes :
        LET chunk == Head(pipe.chunks)
            results == Append(pipe.results, Value(o, chunk))
        IN
        /\ pipe.pc = "mm_chunk"
        /\ log' = Logged(log, Request(1, "mymemory", pipe.src, pipe.tgt, chunk))
        /\ pipe' = IF o = "raise" THEN [pipe EXCEPT !.ret = Raised, !.pc = "done"]
                   ELSE IF Len(pipe.chunks) > 1
                   THEN [pipe EXCEPT !.results = results, !.chunks = Tail(@)]
                   ELSE [pipe EXCEPT
                            !.results = results, !.chunks = <<>>,
                            !.ret = IF Len(pipe.text) > MyMemoryLimit
                                    THEN Joined(<<" ">>, results)
                                    ELSE results[1],
                            !.pc = "done"]
        /\ UNCHANGED <<cl, disk, lru>>

\* translate_chunk has returned
size_return ==
    /\ pipe.pc = "tc_wait"
    /\ cl[1].pc = "done"
    /\ pipe' = [pipe EXCEPT !.ret = cl[1].ret, !.pc = "done"]
    /\ UNCHANGED <<cl, log, disk, lru>>

SizeFns ==
    {"simple_translate_text", "attempt_translation", "try_mymemory_translation",
     "translate_chunk"}

SizePc(fn) ==
    CASE fn = "simple_translate_text" -> "st_enter"
      [] fn = "attempt_translation" -> "at_enter"
      [] fn = "try_mymemory_translation" -> "mm_enter"
      [] fn = "translate_chunk" -> "tc_wait"

\* texts of one paragraph and one sentence around the thresholds, two
\* paragraphs that fill a chunk together, and two sentences
SizeTexts ==
    {Rep("a", n) : n \in (AttemptLimit - 1)..(AttemptLimit + MaxOver)}
        \cup {Rep("a", n) : n \in (max_chunk_size - 1)..(max_chunk_size + MaxOver)}
        \cup {Rep("a", n) : n \in (MyMemoryLimit - 1)..(MyMemoryLimit + MaxOver)}
        \cup {Rep("a", max_chunk_size \div 2) \o <<"\n", "\n">>
                  \o Rep("a", max_chunk_size \div 2),
              Rep("a", AttemptLimit - 1) \o <<".", " ">> \o Rep("a", MaxOver)}

SizeCall ==
    /\ pipe.pc = "idle"
    /\ \E fn \in SizeFns, text \in SizeTexts :
        /\ fn = "translate_chunk" => Len(text) <= MyMemoryLimit
        /\ pipe' = [IdleSize EXCEPT !.fn = fn, !.text = text, !.pc = SizePc(fn)]
        /\ cl' = IF fn = "translate_chunk"
                 THEN [cl EXCEPT ![1] = StartCall(fn, text, ES, EN, FALSE)]
                 ELSE cl
    /\ UNCHANGED <<log, disk, lru>>

InitSize ==
    /\ cl = [w \in Workers |-> IdleClient]
    /\ log = <<>>
    /\ disk = EmptyDict
    /\ lru = EmptyDict
    /\ pipe = IdleSize

NextSize ==
    \/ SizeCall
    \/ simple_translate_text
    \/ simple_translate_text_chunk
    \/ simple_translate_text_auto
    \/ attempt_translation_chunks
    \/ attempt_translation_chunk
    \/ try_mymemory_translation
    \/ try_mymemory_translation_chunk
    \/ size_return
    \/ lru_lookup(1)
    \/ translate_chunk(1)
    \/ translation_service(1)
    \/ try_chunk_translation(1)
    \/ try_chunk_translation_mymemory(1)
    \/ try_chunk_translation_join(1)
    \/ lru_store(1)

SpecSize == InitSize /\ [][NextSize]_vars

(***************************************************************************)
(* Claims about request sizes.                                             *)
(***************************************************************************)
\* the size threshold of the function a request belongs to
Threshold(fn) ==
    IF fn = "attempt_translation" THEN AttemptLimit ELSE max_chunk_size

\* C20: no request of simple_pdf_translator.translate_text or to MyMemory
\* carries more than 4000 characters and no request of attempt_translation
\* more than 1000, whatever text the function is called with.
C20_RequestsWithinThreshold ==
    \A i \in DOMAIN log :
        (pipe.fn # "translate_chunk" \/ log[i].svc = "mymemory")
            => Len(log[i].text) <= Threshold(pipe.fn)

(***************************************************************************)
(* pdf_processor.translate_pdf_with_images, phase 3, one block: the body   *)
(* of the loop over the blocks of a page, with every outcome the drawing   *)
(* calls of the library can have.  pipe holds the block, its translation   *)
(* from translation_mapping and what has been drawn; steps lists the       *)
(* insertion calls made for the block, in order.  A font size is a         *)
(* fraction <<numerator, denominator>>.                                    *)
(***************************************************************************)
MaxBlock == 4

\* translated[:100] and translated[:50]
TextChars == 100
AnnotChars == 50

fallback_fonts == <<"Helvetica", "Times-Roman", "Courier">>

\* for attempt in range(3)
FontAttempts == 3

\* a <= b for fractions
FracLeq(a, b) == a[1] * b[2] <= b[1] * a[2]

\* fontsize = max(8, 11 * min(1.0, original_len / max(1, translated_len)))
FontSize(original_len, translated_len) ==
    LET den == IF translated_len < 1 THEN 1 ELSE translated_len
        ratio == IF original_len >= den THEN <<1, 1>> ELSE <<original_len, den>>
        scaled == <<11 * ratio[1], ratio[2]>>
    IN  IF FracLeq(<<8, 1>>, scaled) THEN scaled ELSE <<8, 1>>

\* the font size kept as it is
SameSize(fontsize) == fontsize

\* fontsize = max(6, fontsize * 0.8)
Shrink(fontsize) ==
    LET reduced == <<4 * fontsize[1], 5 * fontsize[2]>> IN
    IF FracLeq(<<6, 1>>, reduced) THEN reduced ELSE <<6, 1>>

\* translated[:n] + ("..." if len(translated) > n else "")
Truncated(translated, n) ==
    IF Len(translated) > n THEN SubSeq(translated, 1, n) \o <<".", ".", ".">>
    ELSE translated

IdleRender ==
    [pc |-> "idle", service |-> "any", text |-> <<>>, translated |-> <<>>,
     covered |-> FALSE, fontsize |-> <<0, 1>>, font |-> 1, attempt |-> 0,
     success |-> FALSE, steps |-> <<>>]

\* the block is skipped when its text is too short or its translation is
\* blank or the text itself
render_block ==
    /\ pipe.pc = "rb_block"
    /\ pipe' = IF pipe.text = <<>> \/ Len(Strip(pipe.text)) < 2
               THEN [pipe EXCEPT !.pc = "done"]
               ELSE IF Strip(pipe.translated) = <<>> \/ pipe.translated = pipe.text
               THEN [pipe EXCEPT !.pc = "done"]
               ELSE [pipe EXCEPT !.pc = "rb_cover"]
    /\ UNCHANGED <<cl, log, disk, lru>>

\* the rectangle over the original text: in the sampled background colour
\* or, when that raises, in white; when that raises too the block is left.
\* Then the first font size.
draw_rect ==
    /\ pipe.pc = "rb_cover"
    /\ \E color_error, white_error \in BOOLEAN :
        /\ white_error => color_error
        /\ pipe' = IF white_error THEN [pipe EXCEPT !.pc = "done"]
                   ELSE [pipe EXCEPT
                            !.covered = TRUE,
                            !.fontsize = FontSize(Len(Strip(pipe.text)),
                                                  Len(Strip(pipe.translated))),
                            !.font = 1, !.attempt = 0, !.success = FALSE,
                            !.pc = "rb_textbox"]
    /\ UNCHANGED <<cl, log, disk, lru>>

\* one insert_textbox try: the text fits, or it does not (nothing is drawn
\* and a negative number returned), or the call raises
insert_textbox ==
    /\ pipe.pc = "rb_textbox"
    /\ \E result \in {"fits", "overflow", "raise"} :
        LET step == [call |-> "insert_textbox",
                     fontname |-> fallback_fonts[pipe.font],
                     fontsize |-> pipe.fontsize, text |-> pipe.translated]
            last == pipe.attempt + 1 = FontAttempts
        IN
        pipe' = IF result = "fits"
                THEN [pipe EXCEPT !.steps = Append(@, step), !.success = TRUE,
                                  !.pc = "done"]
                ELSE [pipe EXCEPT
                         !.steps = Append(@, step),
                         !.fontsize = Shrink(@),
                         !.attempt = IF last THEN 0 ELSE @ + 1,
                         !.font = IF last THEN @ + 1 ELSE @,
                         !.pc = IF last /\ pipe.font = Len(fallback_fonts)
                                THEN "rb_text" ELSE "rb_textbox"]
    /\ UNCHANGED <<cl, log, disk, lru>>

\* "If all attempts failed, try a simpler approach with text insertion"
insert_text ==
    /\ pipe.pc = "rb_text"
    /\ \E text_error \in BOOLEAN :
        LET step == [call |-> "insert_text", fontname |-> "default",
                     fontsize |-> <<6, 1>>,
                     text |-> Truncated(pipe.translated, TextChars)]
        IN
        pipe' = IF text_error
                THEN [pipe EXCEPT !.steps = Append(@, step), !.pc = "rb_annot"]
                ELSE [pipe EXCEPT !.steps = Append(@, step), !.success = TRUE,
                                  !.pc = "done"]
    /\ UNCHANGED <<cl, log, disk, lru>>

\* "Last resort": a text annotation; when it raises the error is printed
add_text_annot ==
    /\ pipe.pc = "rb_annot"
    /\ \E annot_error \in BOOLEAN :
        LET step == [call |-> "add_text_annot", fontname |-> "none",
                     fontsize |-> <<0, 1>>,
                     text |-> Truncated(pipe.translated, AnnotChars)]
        IN
        pipe' = [pipe EXCEPT !.steps = Append(@, step),
                             !.success = ~annot_error, !.pc = "done"]
    /\ UNCHANGED <<cl, log, disk, lru>>

\* block texts of 2..MaxBlock characters, one of them with a newline at its
\* end, and one too short
RenderTexts ==
    {Rep("a", n) : n \in 1..MaxBlock} \cup {<<"a", "a", "\n">>}

\* what translation_mapping can hold for a block: the text itself, its
\* stripped form, a blank, and translations shorter and longer than the
\* text, two of them longer than the truncation lengths
RenderTranslations(text) ==
    {text, Strip(text), <<" ">>}
        \cup {Rep("b", m) : m \in 1..(2 * MaxBlock)}
        \cup {Rep("b", AnnotChars + 1), Rep("b", TextChars + 1)}

RenderCall ==
    /\ pipe.pc = "idle"
    /\ \E text \in RenderTexts :
        \E translated \in RenderTranslations(text) :
            pipe' = [IdleRender EXCEPT !.text = text, !.translated = translated,
                                       !.pc = "rb_block"]
    /\ UNCHANGED <<cl, log, disk, lru>>

InitRender ==
    /\ cl = [w \in Workers |-> IdleClient]
    /\ log = <<>>
    /\ disk = EmptyDict
    /\ lru = EmptyDict
    /\ pipe = IdleRender

NextRender ==
    \/ RenderCall
    \/ render_block
    \/ draw_rect
    \/ insert_textbox
    \/ insert_text
    \/ add_text_annot

SpecRender == InitRender /\ [][NextRender]_vars

(***************************************************************************)
(* Claims about rendering.                                                 *)
(***************************************************************************)
\* the calls made for the block follow the order text box (three tries with
\* each font), insert_text, annotation
StepsInOrder(steps) ==
    \A i \in DOMAIN steps :
        /\ i <= 9 =>
            /\ steps[i].call = "insert_textbox"
            /\ steps[i].fontname = fallback_fonts[((i - 1) \div FontAttempts) + 1]
        /\ i = 10 =>
            /\ steps[i].call = "insert_text"
            /\ steps[i].text = Truncated(pipe.translated, 100)
        /\ i = 11 =>
            /\ steps[i].call = "add_text_annot"
            /\ steps[i].text = Truncated(pipe.translated, 50)
        /\ i <= 11

\* C21: a covered block gets the text box with each of the three fonts, then
\* insert_text with the text cut to 100 characters, then an annotation with
\* the text cut to 50, each only after the earlier ones failed, and ends
\* with one of them applied.
C21_CoveredBlockGetsTranslation ==
    /\ StepsInOrder(pipe.steps)
    /\ (pipe.pc = "done" /\ pipe.covered) => pipe.success

\* equality of fractions
FracEq(a, b) == a[1] * b[2] = b[1] * a[2]

\* the text box tries among the calls made for the block
TextboxSteps == SelectSeq(pipe.steps, LAMBDA s : s.call = "insert_textbox")

\* C22: the first text box try of a block uses max(8, 11 * min(1, original
\* length / translated length)) points, between 8 and 11; each further try
\* uses 0.8 times the size before it, but at least 6; over the at most 9
\* tries the size never grows and stays between 6 and 11.
C22_FontSizeShrinksWithinBounds ==
    LET tries == TextboxSteps
        o == Len(Strip(pipe.text))
        t == Len(Strip(pipe.translated))
    IN
    /\ Len(tries) <= 9
    /\ tries # <<>> =>
        /\ FracLeq(<<8, 1>>, tries[1].fontsize)
        /\ FracLeq(tries[1].fontsize, <<11, 1>>)
        /\ IF o >= t THEN FracEq(tries[1].fontsize, <<11, 1>>)
           ELSE IF 11 * o >= 8 * t THEN FracEq(tries[1].fontsize, <<11 * o, t>>)
           ELSE FracEq(tries[1].fontsize, <<8, 1>>)
    /\ \A i \in DOMAIN tries :
        /\ FracLeq(<<6, 1>>, tries[i].fontsize)
        /\ FracLeq(tries[i].fontsize, <<11, 1>>)
        /\ i > 1 =>
            LET before == tries[i - 1].fontsize IN
            /\ FracLeq(tries[i].fontsize, before)
            /\ IF 4 * before[1] >= 6 * 5 * before[2]
               THEN FracEq(tries[i].fontsize, <<4 * before[1], 5 * before[2]>>)
               ELSE FracEq(tries[i].fontsize, <<6, 1>>)

\* nine text box tries were made for a block whose first size lies strictly
\* between 8 and 11 points
C22_Witness ==
    /\ pipe.pc \in {"rb_text", "rb_annot", "done"}
    /\ Len(TextboxSteps) = 9
    /\ ~FracLeq(TextboxSteps[1].fontsize, <<8, 1>>)
    /\ ~FracLeq(<<11, 1>>, TextboxSteps[1].fontsize)
    /\ FracEq(TextboxSteps[9].fontsize, <<6, 1>>)

(***************************************************************************)
(* pdf_processor.translate_chunks_parallel with tasks that can fail.  The  *)
(* pool has the threads of Workers; the thread that called the function    *)
(* is the Coordinator: it takes the finished tasks from as_completed and,  *)
(* for a task that ended with an exception, calls translate_chunk itself.  *)
(* A task fails when an exception leaves translate_chunk before its first  *)
(* request (the text cannot be encoded, or the cache file of the language  *)
(* pair holds something else than a dictionary of texts).                  *)
(***************************************************************************)
MaxChunks == 3

Coordinator == 0
Threads == {Coordinator} \cup Workers

\* the threads inside a call of a translation client
InFlight == {w \in DOMAIN cl : cl[w].pc \notin {"idle", "done"}}

IdleFlight ==
    [pc |-> "idle", service |-> "any", chunks |-> <<>>,
     fsrc |-> <<>>, ftgt |-> <<>>, taken |-> 0,
     task |-> [w \in Workers |-> 0], finished |-> {}, handled |-> {},
     retry |-> 0, results |-> <<>>]

\* a free pool thread starts the next submitted task; the task fails at
\* once or gets into translate_chunk
task_start(w) ==
    LET i == pipe.taken + 1 IN
    /\ pipe.pc = "fl_pool"
    /\ pipe.task[w] = 0
    /\ pipe.taken < Len(pipe.chunks)
    /\ \E exception \in BOOLEAN :
        IF exception
        THEN /\ pipe' = [pipe EXCEPT
                            !.taken = i,
                            !.finished = @ \cup {[i |-> i, exception |-> TRUE,
                                                  result |-> NoneV]}]
             /\ UNCHANGED cl
        ELSE /\ cl' = [cl EXCEPT ![w] = StartCall("translate_chunk",
                                                  pipe.chunks[i],
                                                  pipe.fsrc, pipe.ftgt, TRUE)]
             /\ pipe' = [pipe EXCEPT !.taken = i, !.task[w] = i]
    /\ UNCHANGED <<log, disk, lru>>

\* translate_chunk returns in a pool thread: the task is finished and the
\* thread is free
task_done(w) ==
    /\ pipe.pc = "fl_pool"
    /\ pipe.task[w] > 0
    /\ Returned(w)
    /\ pipe' = [pipe EXCEPT
                   !.task[w] = 0,
                   !.finished = @ \cup {[i |-> pipe.task[w], exception |-> FALSE,
                                         result |-> cl[w].ret]}]
    /\ UNCHANGED <<disk, lru>>

\* result if result and result.strip() else chunks[chunk_idx]
ResultOrChunk(result, chunk) ==
    IF Truthy(result) /\ Strip(result) # <<>> THEN result ELSE chunk

\* the coordinator takes a finished task from as_completed: its result goes
\* to the results; for a task that failed the coordinator calls
\* translate_chunk(chunks[chunk_idx], 'auto', formatted_target, None)
as_completed ==
    /\ pipe.pc = "fl_pool"
    /\ pipe.retry = 0
    /\ \E f \in pipe.finished :
        /\ f.i \notin pipe.handled
        /\ IF f.exception
           THEN /\ cl' = [cl EXCEPT ![Coordinator] =
                             StartCall("translate_chunk", pipe.chunks[f.i],
                                       AUTO, pipe.ftgt, TRUE)]
                /\ pipe' = [pipe EXCEPT !.handled = @ \cup {f.i},
                                        !.retry = f.i]
           ELSE /\ pipe' = [pipe EXCEPT
                               !.handled = @ \cup {f.i},
                               !.results =
                                   Append(@, [key |-> <<f.i>>,
                                              result |-> ResultOrChunk(
                                                  f.result, pipe.chunks[f.i])])]
                /\ UNCHANGED cl
    /\ UNCHANGED <<log, disk, lru>>

\* the coordinator's own call returns
retry_result ==
    /\ pipe.pc = "fl_pool"
    /\ pipe.retry > 0
    /\ Returned(Coordinator)
    /\ pipe' = [pipe EXCEPT
                   !.retry = 0,
                   !.results =
                       Append(@, [key |-> <<pipe.retry>>,
                                  result |-> ResultOrChunk(
                                      cl[Coordinator].ret,
                                      pipe.chunks[pipe.retry])])]
    /\ UNCHANGED <<disk, lru>>

\* every task has been taken from as_completed: the pool is shut down and
\* the sorted results are returned
flight_return ==
    LET results == FillMissing(SortResults(pipe.results), pipe.chunks) IN
    /\ pipe.pc = "fl_pool"
    /\ pipe.retry = 0
    /\ pipe.handled = 1..Len(pipe.chunks)
    /\ pipe' = [pipe EXCEPT !.results = [j \in DOMAIN results |-> results[j].result],
                            !.pc = "done"]
    /\ UNCHANGED <<cl, log, disk, lru>>

\* chunk lists of 1..MaxChunks chunks of different lengths
FlightChunks ==
    {[i \in 1..n |-> Rep("a", i + 1)] : n \in 1..MaxChunks}

\* the service fails every request of the run, returns every text
\* unchanged, or translates every one
FlightCall ==
    /\ pipe.pc = "idle"
    /\ \E chunks \in FlightChunks, service \in {"raise", "echo", "tr"} :
        pipe' = [IdleFlight EXCEPT !.chunks = chunks, !.service = service,
                                   !.fsrc = format_language_code(ES),
                                   !.ftgt = format_language_code(EN),
                                   !.pc = "fl_pool"]
    /\ UNCHANGED <<cl, log, disk, lru>>

InitFlight ==
    /\ cl = [w \in Threads |-> IdleClient]
    /\ log = <<>>
    /\ disk = EmptyDict
    /\ lru = EmptyDict
    /\ pipe = IdleFlight

NextFlight ==
    \/ FlightCall
    \/ \E w \in Workers : task_start(w)
    \/ \E w \in Workers : task_done(w)
    \/ as_completed
    \/ retry_result
    \/ flight_return
    \/ \E w \in Threads : lru_lookup(w)
    \/ \E w \in Threads : translate_chunk(w)
    \/ \E w \in Threads : translation_service(w)
    \/ \E w \in Threads : try_chunk_translation(w)
    \/ \E w \in Threads : try_chunk_translation_mymemory(w)
    \/ \E w \in Threads : try_chunk_translation_join(w)
    \/ \E w \in Threads : lru_store(w)

SpecFlight == InitFlight /\ [][NextFlight]_vars

(***************************************************************************)
(* Claims about the worker pool.                                           *)
(***************************************************************************)
\* C23: at every moment at most as many translation calls are in progress
\* as the pool has threads, also while the coordinating thread retries a
\* failed task itself.
C23_InFlightWithinPool == Cardinality(InFlight) <= NumWorkers

(***************************************************************************)
(* Termination.  Every step of a client is a step of the thread that runs  *)
(* the call and a request to the service returns or raises, so a client    *)
(* that can take a step eventually takes one.                              *)
(***************************************************************************)
\* the language pairs of the calls: a source to detect with target English,
\* and Spanish to a target other than English
TermLangs == {<<AUTO, EN>>, <<ES, CA>>}

TermCall ==
    /\ \A w \in Workers : cl[w].pc = "idle"
    /\ \E fn \in ClientFns, text \in ClientTexts, langs \in TermLangs :
        /\ cl' = [cl EXCEPT ![1] = StartCall(fn, text, langs[1], langs[2], FALSE)]
        /\ UNCHANGED <<log, disk, lru, pipe>>

NextTerm ==
    \/ TermCall
    \/ lru_lookup(1)
    \/ translate_chunk(1)
    \/ translation_service(1)
    \/ try_chunk_translation(1)
    \/ try_chunk_translation_mymemory(1)
    \/ try_chunk_translation_join(1)
    \/ lru_store(1)
    \/ robust_translate_text(1)
    \/ robust_translate_text_primary(1)
    \/ robust_translate_text_auto(1)
    \/ translate_text_with_fallbacks(1)
    \/ translate_text_with_fallbacks_attempt(1)
    \/ translate_text_with_fallbacks_emergency(1)
    \/ exact_translate_text(1)
    \/ exact_translate_text_attempt(1)
    \/ translate_text_directly(1)
    \/ attempt_translation(1)

LiveClient == InitClient /\ [][NextTerm]_vars /\ WF_vars(NextTerm)

\* the most requests a call can make for its text: four strategies and two
\* requests for each sentence in translate_chunk, two in robust
\* translate_text, three tries and the emergency one in
\* translate_text_with_fallbacks, three tries in exact translate_text, a
\* first try and three retries for each of three attempts in
\* translate_text_directly
CallBound(c) ==
    CASE c.fn = "translate_chunk" -> 4 + 2 * Len(c.text)
      [] c.fn = "robust_translate_text" -> 2
      [] c.fn = "translate_text_with_fallbacks" -> 4
      [] c.fn = "exact_translate_text" -> 3
      [] c.fn = "translate_text_directly" -> 12
      [] OTHER -> 0

C25_RequestsKeepTarget ==
    \A i \in DOMAIN log :
        log[i].tgt \in {cl[log[i].w].tgt, format_language_code(cl[log[i].w].tgt)}

(***************************************************************************)
(* Claims about blocks whose translation failed.                           *)
(***************************************************************************)
\* C26: when every request of a run of translate_pdf_with_images raised, so
\* that translate_chunk fell back to the original for every block, no block
\* is covered or written: every page of the output shows its blocks as the
\* source page does, also blocks with a newline at their end.
C26_FailedBlocksLeftAsCopied ==
    (RunDone /\ pipe.variant = "translate_pdf_with_images"
        /\ pipe.status = "ok" /\ pipe.sent # {} /\ pipe.outage)
            => pipe.out = pipe.doc

(***************************************************************************)
(* Claims about the entries of the translation cache.                      *)
(***************************************************************************)
\* every entry of the dictionary is a non-blank text other than the text
\* its key is the hash of
SuccessfulEntries(cache) ==
    \A h \in DOMAIN cache :
        /\ Truthy(cache[h])
        /\ Strip(cache[h]) # <<>>
        /\ TextHash(cache[h]) # h

\* C27: at every point of a run of translate_pdf_with_images every entry of
\* the cache dictionary and of the cache files is a successful translation:
\* a non-blank text different from the source text; the original returned
\* after a failed translation is never stored.
C27_CacheHoldsTranslationsOnly ==
    pipe.variant = "translate_pdf_with_images"
        => /\ SuccessfulEntries(pipe.translation_cache)
           /\ \A path \in DOMAIN disk : SuccessfulEntries(disk[path])

(***************************************************************************)
(* Claims about repeated formatting of a language code.                    *)
(***************************************************************************)
\* C28: formatting a formatted language code changes nothing:
\* format_language_code(format_language_code(c)) = format_language_code(c)
\* for every code c, also for codes with a region.
C28_FormatIdempotent ==
    pipe.pc = "formatted" => pipe.again = pipe.ret

(***************************************************************************)
(* robust_pdf_translator.create_translated_pdf, the blocks of one page:    *)
(* every outcome the drawing calls of the library can have.  text_inserted *)
(* is the local variable of that name: it is set by an insert_textbox call *)
(* that returns, and by nothing else.  done lists, block by block, the     *)
(* outcomes of the text box tries and whether insert_text was called.      *)
(***************************************************************************)
MaxPageBlocks == 2

\* a variable no value has been assigned to; an assigned one holds <<value>>
Unbound == <<>>

IdleCreate ==
    [pc |-> "idle", service |-> "any", nblocks |-> 0, block |-> 0, font |-> 0,
     text_inserted |-> Unbound, tries |-> <<>>, done |-> <<>>, status |-> "running"]

\* the work on block p.block is over: next block, or save and return True
BlockOver(p, fallback) ==
    LET done == Append(p.done, [tries |-> p.tries, fallback |-> fallback]) IN
    IF p.block < p.nblocks
    THEN [p EXCEPT !.done = done, !.block = @ + 1, !.tries = <<>>,
                   !.pc = "cp_rect"]
    ELSE [p EXCEPT !.done = done, !.status = "ok", !.pc = "done"]

\* the white rectangle over the block; an exception here leaves the
\* function, which returns False.  text_inserted is not assigned before the
\* fonts are tried.
create_draw_rect ==
    /\ pipe.pc = "cp_rect"
    /\ \E raise \in BOOLEAN :
        pipe' = IF raise THEN [pipe EXCEPT !.status = "failed", !.pc = "done"]
                ELSE [pipe EXCEPT !.font = 1, !.tries = <<>>,
                                  !.pc = "cp_textbox"]
    /\ UNCHANGED <<cl, log, disk, lru>>

\* insert_textbox with the next font: it fits (the loop is left), or
\* returns a negative number, or raises (text_inserted keeps its value)
create_insert_textbox ==
    /\ pipe.pc = "cp_textbox"
    /\ \E result \in {"fits", "overflow", "raise"} :
        LET tries == Append(pipe.tries, result) IN
        pipe' = [pipe EXCEPT
                    !.tries = tries,
                    !.text_inserted = IF result = "fits" THEN <<0>>
                                      ELSE IF result = "overflow" THEN <<-1>>
                                      ELSE @,
                    !.font = @ + 1,
                    !.pc = IF result = "fits" \/ pipe.font = Len(fallback_fonts)
                           THEN "cp_after" ELSE "cp_textbox"]
    /\ UNCHANGED <<cl, log, disk, lru>>

\* "if text_inserted < 0": reading the variable while it is unbound raises,
\* which the outer handler of the block prints; a negative value leads to
\* insert_text, whose exception is printed too
create_fallback ==
    /\ pipe.pc = "cp_after"
    /\ pipe' = IF pipe.text_inserted = Unbound THEN BlockOver(pipe, FALSE)
               ELSE IF pipe.text_inserted[1] < 0 THEN BlockOver(pipe, TRUE)
               ELSE BlockOver(pipe, FALSE)
    /\ UNCHANGED <<cl, log, disk, lru>>

CreateCall ==
    /\ pipe.pc = "idle"
    /\ \E n \in 1..MaxPageBlocks :
        pipe' = [IdleCreate EXCEPT !.nblocks = n, !.block = 1, !.pc = "cp_rect"]
    /\ UNCHANGED <<cl, log, disk, lru>>

InitCreate ==
    /\ cl = [w \in Workers |-> IdleClient]
    /\ log = <<>>
    /\ disk = EmptyDict
    /\ lru = EmptyDict
    /\ pipe = IdleCreate

NextCreate ==
    \/ CreateCall
    \/ create_draw_rect
    \/ create_insert_textbox
    \/ create_fallback

SpecCreate == InitCreate /\ [][NextCreate]_vars

(***************************************************************************)
(* Claims about the fallback of create_translated_pdf.                     *)
(***************************************************************************)
\* C29: insert_text is attempted for every block for which no text box try
\* succeeded, each of its tries having raised or returned a negative
\* number, whatever happened for the blocks before it.
C29_FallbackDecidedPerBlock ==
    \A b \in DOMAIN pipe.done :
        LET tries == pipe.done[b].tries IN
        (\A i \in DOMAIN tries : tries[i] # "fits") => pipe.done[b].fallback

(***************************************************************************)
(* pdf_processor.translate_text: a text file is cut into chunks, the       *)
(* chunks are translated batch by batch with translate_chunks_parallel and *)
(* the output file is written after every batch and at the end.  The texts *)
(* here have at most 50000 characters, so the whole text is translated.    *)
(* file is the content of the output file, written the contents written to *)
(* it so far, orders the completion orders of the batches.                 *)
(***************************************************************************)
MaxExtra == 1

\* MAX_CHUNK_SIZE of translate_text
MAX_CHUNK_SIZE == 1000
\* batch_size of translate_text
text_batch_size == 10

\* paragraph[i:i + MAX_CHUNK_SIZE] for i in range(0, len(paragraph), MAX_CHUNK_SIZE)
Slices(paragraph) ==
    [k \in 1..((Len(paragraph) + MAX_CHUNK_SIZE - 1) \div MAX_CHUNK_SIZE) |->
        SubSeq(paragraph, (k - 1) * MAX_CHUNK_SIZE + 1,
               IF k * MAX_CHUNK_SIZE < Len(paragraph) THEN k * MAX_CHUNK_SIZE
               ELSE Len(paragraph))]

RECURSIVE ChunksOf(_)
\* the non-blank paragraphs, a long one cut into its non-blank slices
ChunksOf(paragraphs) ==
    IF paragraphs = <<>> THEN <<>>
    ELSE LET paragraph == Head(paragraphs) IN
         (IF Len(paragraph) <= MAX_CHUNK_SIZE
          THEN IF Strip(paragraph) # <<>> THEN <<paragraph>> ELSE <<>>
          ELSE SelectSeq(Slices(paragraph), LAMBDA chunk : Strip(chunk) # <<>>))
             \o ChunksOf(Tail(paragraphs))

\* only the results of the last batch are kept
OnlyLastBatch(translated_chunks, batch_results) == batch_results

\* translated_chunks.extend(batch_results)
Extend(translated_chunks, batch_results) == translated_chunks \o batch_results

\* chunks[i:i + batch_size]
BatchFrom(chunks, i) ==
    SubSeq(chunks, i + 1,
           IF i + text_batch_size < Len(chunks) THEN i + text_batch_size
           ELSE Len(chunks))

IdleText ==
    IdlePipe @@ [text |-> <<>>, all_chunks |-> <<>>, translated_chunks |-> <<>>,
                 offset |-> 0, file |-> NoneV, written |-> <<>>, orders |-> <<>>]

\* open(output_path, 'w').write(content)
Written(p, content) ==
    [p EXCEPT !.file = content, !.written = Append(@, content)]

\* translate_text up to the first batch: code formatting, same-language
\* copy, removal of the cache file, split into chunks
text_split ==
    LET source_code == format_language_code(pipe.src)
        target_code == format_language_code(pipe.tgt)
        cache_path == get_cache_path(source_code, target_code)
    IN
    /\ pipe.pc = "tx_enter"
    /\ IF source_code = target_code /\ source_code # AUTO
       THEN /\ pipe' = [Written(pipe, pipe.text) EXCEPT !.status = "ok",
                                                        !.pc = "tx_done"]
            /\ UNCHANGED disk
       ELSE /\ disk' = IF cache_path \in DOMAIN disk THEN Remove(disk, cache_path)
                       ELSE disk
            /\ pipe' = [pipe EXCEPT
                           !.src = source_code, !.tgt = target_code,
                           !.all_chunks = ChunksOf(Paragraphs(pipe.text)),
                           !.translated_chunks = <<>>, !.offset = 0,
                           !.pc = "tx_batch"]
    /\ UNCHANGED <<cl, log, lru>>

\* the next batch goes to translate_chunks_parallel; after the last batch
\* the final text is written and True returned
text_batch ==
    /\ pipe.pc = "tx_batch"
    /\ pipe' = IF pipe.offset < Len(pipe.all_chunks)
               THEN [pipe EXCEPT !.chunks = BatchFrom(pipe.all_chunks, pipe.offset),
                                 !.pc = "cp_enter"]
               ELSE [Written(pipe, JoinWith(<<"\n", "\n">>, pipe.translated_chunks))
                        EXCEPT !.status = "ok", !.pc = "tx_done"]
    /\ UNCHANGED <<cl, log, disk, lru>>

\* translate_chunks_parallel has returned: its results are added and the
\* intermediate text is written
text_batch_results ==
    LET translated_chunks == Extend(pipe.translated_chunks, pipe.results) IN
    /\ pipe.variant = "translate_text"
    /\ pipe.pc = "done"
    /\ pipe' = [Written(pipe, JoinWith(<<"\n", "\n">>, translated_chunks)) EXCEPT
                   !.translated_chunks = translated_chunks,
                   !.orders = Append(@, pipe.completed),
                   !.offset = @ + text_batch_size,
                   !.status = "running", !.pc = "tx_batch"]
    /\ UNCHANGED <<cl, log, disk, lru>>

\* n paragraphs, two texts in turn
TextOfParagraphs(n) ==
    JoinWith(<<"\n", "\n">>, [i \in 1..n |-> Rep("a", 2 + (i % 2))])

\* texts of one paragraph, of one full batch, and of up to MaxExtra
\* paragraphs more
TextInputs ==
    {TextOfParagraphs(n) :
        n \in {1} \cup (text_batch_size..(text_batch_size + MaxExtra))}

\* the service translates every request of the run or, for the text of one
\* paragraph, fails every one or returns every text unchanged
TextCall ==
    /\ pipe.pc = "idle"
    /\ \E text \in TextInputs, service \in {"tr", "raise", "echo"}, tgt \in {EN, ES} :
        /\ service # "tr" => text = TextOfParagraphs(1)
        /\ pipe' = [IdleText EXCEPT !.variant = "translate_text", !.text = text,
                                 !.src = ES, !.tgt = tgt, !.service = service,
                                 !.pc = "tx_enter"]
    /\ UNCHANGED <<cl, log, disk, lru>>

InitText ==
    /\ cl = [w \in Workers |-> IdleClient]
    /\ log = <<>>
    /\ disk = EmptyDict
    /\ lru = EmptyDict
    /\ pipe = IdleText

NextText ==
    \/ TextCall
    \/ text_split
    \/ text_batch
    \/ text_batch_results
    \/ translate_chunks_parallel
    \/ \E w \in Workers : submit_chunk(w)
    \/ \E w \in Workers : chunk_result(w)
    \/ translate_chunks_parallel_return
    \/ \E w \in Workers : lru_lookup(w)
    \/ \E w \in Workers : translate_chunk(w)
    \/ \E w \in Workers : translation_service(w)
    \/ \E w \in Workers : try_chunk_translation(w)
    \/ \E w \in Workers : try_chunk_translation_mymemory(w)
    \/ \E w \in Workers : try_chunk_translation_join(w)
    \/ \E w \in Workers : lru_store(w)

SpecText == InitText /\ [][NextText]_vars

(***************************************************************************)
(* Claims about the output file of translate_text.                         *)
(***************************************************************************)
\* what the run's service makes of a chunk: its translation, or the chunk
\* itself when every request fails
PieceOf(chunk) ==
    IF pipe.service = "tr" THEN <<"x">> \o Strip(chunk) ELSE Strip(chunk)

\* the pieces of the first k chunks, joined in chunk order
JoinedPieces(k) ==
    JoinWith(<<"\n", "\n">>, [i \in 1..k |-> PieceOf(pipe.all_chunks[i])])

\* C30: translate_text translates its chunks in batches of 10; the file
\* written after batch j holds the translations of the chunks of the first
\* j batches, joined in chunk order, so each content written is a prefix of
\* the final one; the final file holds one piece for every chunk, in chunk
\* order, in whatever order the workers finished.
C30_FileHoldsFinishedBatchesInOrder ==
    (pipe.variant = "translate_text" /\ pipe.all_chunks # <<>>) =>
        LET n == Len(pipe.all_chunks) IN
        /\ \A j \in DOMAIN pipe.written :
            pipe.written[j] = JoinedPieces(IF 10 * j < n THEN 10 * j ELSE n)
        /\ \A j \in DOMAIN pipe.orders : Len(pipe.orders[j]) <= 10
        /\ pipe.pc = "tx_done" =>
            /\ Len(pipe.translated_chunks) = n
            /\ pipe.file = JoinedPieces(n)
            /\ Len(pipe.written) = ((n + 9) \div 10) + 1

\* a text of 11 chunks has been translated in two batches, and in the first
\* batch a later chunk was finished before an earlier one
C30_Witness ==
    /\ pipe.variant = "translate_text"
    /\ pipe.pc = "tx_done"
    /\ Len(pipe.all_chunks) = 11
    /\ Len(pipe.written) = 3
    /\ \E j \in 1..9 : pipe.orders[1][j] > pipe.orders[1][j + 1]
====
